---- MODULE Spec2Model ----
(***************************************************************************)
(* SINACScraper: the two-phase crawl of the SINAC portal.                  *)
(*   - data/scraper.py   SINACPayloadSraper (discovery, phase "payload")   *)
(*                       SINACRedScraper    (extraction, phase "red")      *)
(*   - utils/ratelimiter.py   RateLimiter                                  *)
(* The specifications share the variables of this module:                  *)
(*   SpecFetch     one _fetch_data call under its tenacity @retry decorator*)
(*   SpecClassify  one _handle_response call, over every status            *)
(*   SpecLimiter   RateLimiter.acquire() shared by concurrent callers      *)
(*   Spec          one SINACRedScraper.scrape() run                        *)
(*   SpecDiscovery one SINACPayloadSraper.scrape() run                     *)
(*   SpecScrape    one scrape() run of either scraper                      *)
(*   SpecThrottle  concurrent _fetch_data calls of one scraper             *)
(*   SpecCheckpoint  _save_results in a process that can stop              *)
(***************************************************************************)
EXTENDS Integers, Sequences, FiniteSets, TLC

VARIABLES
    fetch,                    \* SpecFetch, SpecClassify: one _fetch_data call
    limiter,                  \* SpecLimiter: the RateLimiter object and the clock
    callers,                  \* SpecLimiter: each caller's position in acquire()
    mun_task,                 \* Spec: each _process_mun_reds task
    red_task,                 \* Spec: each _process_red task
    dataframes,               \* Spec: self.dataframes (payload, invalid, red)
    disk,                     \* Spec: the pickle file of each save_paths entry
    progress,                 \* Spec: processed_municipalities and the callback's calls
    scrape,                   \* Spec: scrape() itself and its session
    discovery,                \* SpecDiscovery: one SINACPayloadSraper.scrape() run
    fetches                   \* SpecThrottle: concurrent _fetch_data calls of one scraper

vars == <<fetch, limiter, callers, mun_task, red_task, dataframes, disk, progress, scrape,
          discovery, fetches>>

(***************************************************************************)
(* config.py                                                               *)
(***************************************************************************)
RETRIES == 4

PARAMETER_CODES == {26, 46, 47, 51, 52, 53, 64, 65, 66, 67}

(***************************************************************************)
(* Bounds of the model                                                     *)
(***************************************************************************)
MinStatus == 100              \* HTTP status codes MinStatus..MaxStatus
MaxStatus == 599

NumCallers == 2               \* concurrent callers of one RateLimiter
MaxAcquires == 3              \* acquire() calls (POSTs, without a limiter) started in one behaviour
MaxInterval == 2              \* 1 / requests_per_second, in clock ticks, at most
MaxTicks == 5                 \* clock ticks in one behaviour

NumMun == 2                   \* municipality payloads given to SINACRedScraper
MaxReds == 2                  \* networks the portal lists in one run, at most
MaxRows == 2                  \* rows of one network's content table, at most

MaxOptions == 2               \* options with a value on one listing page, at most
MaxListed == 4                \* options with a value the portal serves in one run, at most

Phases == {"payload", "red"}
Statuses == MinStatus..MaxStatus
Callers == 1..NumCallers

\* The statuses the portal answers with in SpecFetch: the edges of every
\* branch of _handle_response.
FetchStatuses == {200, 399, 400, 404, 429, 499, 500, 599}

\* What one session.post(...) can come to: asyncio.TimeoutError, an
\* aiohttp.ClientError, or a response with a status whose body can be read
\* (readOk) or not.
OutcomesOf(statuses) ==
    {[kind |-> "TimeoutError", status |-> 0, readOk |-> FALSE],
     [kind |-> "ClientError", status |-> 0, readOk |-> FALSE]}
    \cup {[kind |-> "response", status |-> s, readOk |-> b] : s \in statuses, b \in BOOLEAN}

Outcomes == OutcomesOf(FetchStatuses)

(***************************************************************************)
(* _handle_response of each class: the exception it raises ("none": it     *)
(* returns response.text()) and what it writes to the log.                 *)
(***************************************************************************)
PayloadHandleResponseAbove500(status, readOk) ==
    IF status = 429 THEN [exc |-> "TooManyRequestsError", log |-> <<>>]
    ELSE IF status > 500 THEN [exc |-> "ServerError", log |-> <<>>]
    ELSE IF status >= 400 THEN [exc |-> "RequestError", log |-> <<>>]
    ELSE IF readOk THEN [exc |-> "none", log |-> <<>>]
    ELSE [exc |-> "NetworkError", log |-> <<>>]

PayloadHandleResponse(status, readOk) ==
    IF status = 429 THEN [exc |-> "TooManyRequestsError", log |-> <<>>]
    ELSE IF status >= 500 THEN [exc |-> "ServerError", log |-> <<>>]
    ELSE IF status >= 400 THEN [exc |-> "RequestError", log |-> <<>>]
    ELSE IF readOk THEN [exc |-> "none", log |-> <<>>]
    ELSE [exc |-> "NetworkError", log |-> <<>>]

RedHandleResponseNo404(status, readOk) ==
    IF status = 429 THEN [exc |-> "TooManyRequestsError", log |-> <<>>]
    ELSE IF status >= 500 THEN [exc |-> "ServerError", log |-> <<>>]
    ELSE IF status >= 400 THEN [exc |-> "RequestError", log |-> <<>>]
    ELSE IF readOk THEN [exc |-> "none", log |-> <<>>]
    ELSE [exc |-> "NetworkError", log |-> <<>>]

RedHandleResponse(status, readOk) ==
    IF status = 429 THEN [exc |-> "TooManyRequestsError", log |-> <<>>]
    ELSE IF status = 404 THEN
        [exc |-> IF readOk THEN "none" ELSE "NetworkError",
         log |-> <<"Requesting URL with payload">>]
    ELSE IF status >= 500 THEN [exc |-> "ServerError", log |-> <<>>]
    ELSE IF status >= 400 THEN [exc |-> "RequestError", log |-> <<>>]
    ELSE IF readOk THEN [exc |-> "none", log |-> <<>>]
    ELSE [exc |-> "NetworkError", log |-> <<>>]

handle_response(phase, status, readOk) ==
    IF phase = "payload" THEN PayloadHandleResponse(status, readOk)
    ELSE RedHandleResponse(status, readOk)

(***************************************************************************)
(* The body of _fetch_data (one attempt): the try/except around the POST.  *)
(* An exception of _handle_response is neither a TimeoutError nor a        *)
(* ClientError: the last except clause logs it and raises it again.        *)
(***************************************************************************)
fetch_data(phase, outcome) ==
    IF outcome.kind = "TimeoutError"
    THEN [exc |-> "NetworkError", log |-> <<"Timeout error">>]
    ELSE IF outcome.kind = "ClientError"
    THEN [exc |-> "NetworkError", log |-> <<"Client error">>]
    ELSE LET r == handle_response(phase, outcome.status, outcome.readOk)
         IN  IF r.exc = "none" THEN r
             ELSE [exc |-> r.exc, log |-> r.log \o <<"Unexpected error">>]

(***************************************************************************)
(* The @retry decorators.  retry_if_exception_type is an isinstance test:  *)
(* the three named classes are subclasses of RequestError, RequestError    *)
(* itself is named only by SINACRedScraper.                                *)
(***************************************************************************)
PayloadRetryIf(exc) ==
    exc \in {"TooManyRequestsError", "ServerError", "NetworkError"}

RedRetryIf(exc) ==
    exc \in {"TooManyRequestsError", "ServerError", "RequestError", "NetworkError"}

retry_if(phase, exc) ==
    IF phase = "payload" THEN PayloadRetryIf(exc) ELSE RedRetryIf(exc)

StopOneLater(attempt_number) == attempt_number >= RETRIES + 1

\* stop=stop_after_attempt(RETRIES)
stop_after_attempt(attempt_number) == attempt_number >= RETRIES

\* after=log_failure (SINACRedScraper only; SINACPayloadSraper passes no after)
log_failure(phase, attempt_number) ==
    IF phase = "red" /\ attempt_number = RETRIES
    THEN <<"Failed to fetch data after attempts", "Payload">>
    ELSE <<>>

\* wait=wait_exponential(multiplier=1, min=4, max=...): the bounds
wait_min == 4
wait_max(phase) == IF phase = "payload" THEN 10 ELSE 60

\* tenacity's wait_exponential after attempt attempt_number:
\* max(max(0, min), min(multiplier * 2 ** (attempt_number - 1), max))
wait_exponential(phase, attempt_number) ==
    LET result == 1 * 2 ^ (attempt_number - 1)
        capped == IF result < wait_max(phase) THEN result ELSE wait_max(phase)
    IN  IF capped > wait_min THEN capped ELSE wait_min

(***************************************************************************)
(* One attempt of the decorated _fetch_data, as tenacity runs it: call the *)
(* body; a result, or an exception the retry predicate rejects, ends the   *)
(* call; otherwise after() runs, then stop() decides between RetryError    *)
(* and a sleep before the next attempt.                                    *)
(*   next: "returned" | "raised" | "sleep"                                 *)
(***************************************************************************)
Attempt(phase, attempt_number, outcome) ==
    LET r == fetch_data(phase, outcome)
    IN  IF r.exc = "none"
        THEN [next |-> "returned", exc |-> "none", error |-> "none", log |-> r.log]
        ELSE IF ~retry_if(phase, r.exc)
        THEN [next |-> "raised", exc |-> r.exc, error |-> r.exc, log |-> r.log]
        ELSE IF stop_after_attempt(attempt_number)
        THEN [next |-> "raised", exc |-> r.exc, error |-> "RetryError",
              log |-> r.log \o log_failure(phase, attempt_number)]
        ELSE [next |-> "sleep", exc |-> r.exc, error |-> "none",
              log |-> r.log \o log_failure(phase, attempt_number) \o <<"Retrying">>]

(***************************************************************************)
(* SpecFetch: one call of _fetch_data in either phase.                     *)
(*   hist    the exception class each attempt ended in ("none": a body)    *)
(*   last    the outcome of the latest POST                                *)
(*   result  the body returned: the attempt and status that served it      *)
(*   sleeps  the delays tenacity has waited between the attempts           *)
(***************************************************************************)
NoOutcome == [kind |-> "none", status |-> 0, readOk |-> FALSE]
NoResult == [attempt |-> 0, status |-> 0]

IdleFetch == [phase |-> "none", pc |-> "idle", attempt_number |-> 0, posts |-> 0,
              hist |-> <<>>, last |-> NoOutcome, result |-> NoResult,
              error |-> "none", log |-> <<>>, sleeps |-> <<>>]

IdleLimiter == [now |-> 0, start |-> 0, interval |-> 0, last_request_time |-> 0,
                locked |-> FALSE, waiters |-> <<>>, woken |-> {}, wake_at |-> 0,
                acquires |-> 0, grants |-> <<>>]

FetchCall ==
    /\ fetch.pc = "call"
    /\ \E outcome \in Outcomes :
         LET a == Attempt(fetch.phase, fetch.attempt_number, outcome)
         IN  fetch' = [fetch EXCEPT
                 !.pc = a.next,
                 !.posts = @ + 1,
                 !.hist = Append(@, a.exc),
                 !.last = outcome,
                 !.result = IF a.next = "returned"
                            THEN [attempt |-> fetch.attempt_number, status |-> outcome.status]
                            ELSE @,
                 !.error = a.error,
                 !.log = @ \o a.log,
                 !.sleeps = IF a.next = "sleep"
                            THEN Append(@, wait_exponential(fetch.phase,
                                                            fetch.attempt_number))
                            ELSE @]
    /\ UNCHANGED <<discovery, fetches, limiter, callers, mun_task, red_task, dataframes, disk, progress, scrape>>

\* wait_exponential elapsed: tenacity starts the next attempt
FetchWake ==
    /\ fetch.pc = "sleep"
    /\ fetch' = [fetch EXCEPT !.pc = "call", !.attempt_number = @ + 1]
    /\ UNCHANGED <<discovery, fetches, limiter, callers, mun_task, red_task, dataframes, disk, progress, scrape>>

InitFetch ==
    /\ \E ph \in Phases :
         fetch = [IdleFetch EXCEPT !.phase = ph, !.pc = "call", !.attempt_number = 1]
    /\ limiter = IdleLimiter
    /\ callers = <<>>
    /\ mun_task = <<>>
    /\ red_task = <<>>
    /\ dataframes = <<>>
    /\ disk = <<>>
    /\ progress = <<>>
    /\ scrape = <<>>
    /\ discovery = <<>>
    /\ fetches = <<>>

NextFetch == FetchCall \/ FetchWake

SpecFetch == InitFetch /\ [][NextFetch]_vars

(***************************************************************************)
(* SpecClassify: _handle_response of either class applied to one response  *)
(* of any status MinStatus..MaxStatus.                                     *)
(***************************************************************************)
Classify ==
    /\ fetch.pc = "respond"
    /\ LET r == handle_response(fetch.phase, fetch.last.status, fetch.last.readOk)
       IN  fetch' = [fetch EXCEPT
               !.pc = IF r.exc = "none" THEN "returned" ELSE "raised",
               !.hist = <<r.exc>>,
               !.result = IF r.exc = "none"
                          THEN [attempt |-> 1, status |-> fetch.last.status]
                          ELSE @,
               !.error = r.exc,
               !.log = r.log]
    /\ UNCHANGED <<discovery, fetches, limiter, callers, mun_task, red_task, dataframes, disk, progress, scrape>>

InitClassify ==
    /\ \E ph \in Phases, s \in Statuses, b \in BOOLEAN :
         fetch = [IdleFetch EXCEPT !.phase = ph, !.pc = "respond", !.attempt_number = 1,
                                   !.posts = 1,
                                   !.last = [kind |-> "response", status |-> s, readOk |-> b]]
    /\ limiter = IdleLimiter
    /\ callers = <<>>
    /\ mun_task = <<>>
    /\ red_task = <<>>
    /\ dataframes = <<>>
    /\ disk = <<>>
    /\ progress = <<>>
    /\ scrape = <<>>
    /\ discovery = <<>>
    /\ fetches = <<>>

NextClassify == Classify

SpecClassify == InitClassify /\ [][NextClassify]_vars

(***************************************************************************)
(* SpecLimiter: utils/ratelimiter.py.  The clock counts ticks; interval is *)
(* 1 / requests_per_second in ticks.  time.time() is far above the         *)
(* interval when the limiter is built, and last_request_time starts at 0.  *)
(*   limiter.locked, waiters, woken    the asyncio.Lock: its flag, its     *)
(*                                     queue of waiting callers, and those *)
(*                                     whose future release() has set      *)
(*   limiter.wake_at                   when the holder's asyncio.sleep ends *)
(*   limiter.grants                    the time of every grant, in order   *)
(*   callers[c]                        "idle" | "waiting" | "sleeping"     *)
(***************************************************************************)
LockFreeIgnoresHolder(l) == TRUE

\* asyncio.Lock.acquire succeeds at once: unlocked and nobody queued
LockFree(l) == ~l.locked /\ l.waiters = <<>>

\* asyncio.sleep(1 / self.requests_per_second - time_since_last_request)
SleepFor(interval, since) == interval - since

ReleaseKeepsFlag(l) == l

\* asyncio.Lock.release: clear the flag and set the first waiter's future
Release(l) ==
    [l EXCEPT !.locked = FALSE,
              !.woken = IF l.waiters = <<>> THEN {} ELSE {Head(l.waiters)}]

GrantKeepsLock(l) == [l EXCEPT !.last_request_time = l.now, !.grants = Append(@, l.now)]

\* self.last_request_time = time.time(), then the lock is released
Grant(l) ==
    Release([l EXCEPT !.last_request_time = l.now, !.grants = Append(@, l.now)])

\* The body of acquire() for caller c, entered with the lock held: sleep when
\* the last grant is less than an interval old, else grant now.
Check(l, c) ==
    LET time_since_last_request == l.now - l.last_request_time
    IN  IF time_since_last_request < l.interval
        THEN /\ limiter' = [l EXCEPT
                    !.wake_at = l.now + SleepFor(l.interval, time_since_last_request)]
             /\ callers' = [callers EXCEPT ![c] = "sleeping"]
        ELSE /\ limiter' = Grant(l)
             /\ callers' = [callers EXCEPT ![c] = "idle"]

\* acquire() is called: the lock is taken at once or the caller queues
Acquire(c) ==
    /\ callers[c] = "idle"
    /\ limiter.acquires < MaxAcquires
    /\ IF LockFree(limiter)
       THEN Check([limiter EXCEPT !.locked = TRUE, !.acquires = @ + 1], c)
       ELSE /\ limiter' = [limiter EXCEPT !.waiters = Append(@, c), !.acquires = @ + 1]
            /\ callers' = [callers EXCEPT ![c] = "waiting"]
    /\ UNCHANGED <<discovery, fetches, fetch, mun_task, red_task, dataframes, disk, progress, scrape>>

\* a queued caller whose future was set takes the lock
Resume(c) ==
    /\ callers[c] = "waiting"
    /\ c \in limiter.woken
    /\ Check([limiter EXCEPT
                 !.waiters = SelectSeq(@, LAMBDA w : w # c),
                 !.woken = @ \ {c},
                 !.locked = TRUE], c)
    /\ UNCHANGED <<discovery, fetches, fetch, mun_task, red_task, dataframes, disk, progress, scrape>>

\* asyncio.sleep returns, not before its delay has passed
Wake(c) ==
    /\ callers[c] = "sleeping"
    /\ limiter.now >= limiter.wake_at
    /\ limiter' = Grant(limiter)
    /\ callers' = [callers EXCEPT ![c] = "idle"]
    /\ UNCHANGED <<discovery, fetches, fetch, mun_task, red_task, dataframes, disk, progress, scrape>>

Tick ==
    /\ limiter.now < limiter.start + MaxTicks
    /\ limiter' = [limiter EXCEPT !.now = @ + 1]
    /\ UNCHANGED <<discovery, fetches, fetch, callers, mun_task, red_task, dataframes, disk, progress, scrape>>

InitLimiter ==
    /\ \E iv \in 1..MaxInterval :
         limiter = [IdleLimiter EXCEPT !.now = MaxInterval, !.start = MaxInterval,
                                       !.interval = iv]
    /\ callers = [c \in Callers |-> "idle"]
    /\ fetch = IdleFetch
    /\ mun_task = <<>>
    /\ red_task = <<>>
    /\ dataframes = <<>>
    /\ disk = <<>>
    /\ progress = <<>>
    /\ scrape = <<>>
    /\ discovery = <<>>
    /\ fetches = <<>>

NextLimiter ==
    \/ \E c \in Callers : Acquire(c)
    \/ \E c \in Callers : Resume(c)
    \/ \E c \in Callers : Wake(c)
    \/ Tick

SpecLimiter == InitLimiter /\ [][NextLimiter]_vars

PdConcatLosesEarlier(df, rows) == rows

\* pd.concat([df, rows], ignore_index=True) assigned back to the table
pd_concat(df, rows) == df \o rows

\* a checkpoint file: whether this run has written it, and the rows it holds
Unwritten == [written |-> FALSE, rows |-> <<>>]

\* the scraper of the other phase: not run
NoRun == [pc |-> "none", session_closed |-> FALSE, error |-> "none"]
NoDiscovery == [communities |-> <<>>, comm_task |-> <<>>, prov_task |-> <<>>,
                results_df |-> <<>>, disk |-> Unwritten, scrape |-> NoRun]

(***************************************************************************)
(* Spec: one run of SINACRedScraper.scrape().                              *)
(*                                                                         *)
(* asyncio runs one task at a time and switches only at an await that      *)
(* suspends: each action below is the code between two such points.  The   *)
(* df_locks are taken and released inside one such stretch (no await sits  *)
(* in any "async with self.df_locks[...]" block), so they are always free  *)
(* when asked for.  A call of _fetch_data (its attempts, with the rate      *)
(* limiter and the sleeps between them) ends in the action that consumes   *)
(* its result: nothing it does reads or writes the accumulators.           *)
(*                                                                         *)
(*   mun_task[m]   pc: "fetch" | "gather" | "save" | "done" | "failed" |   *)
(*                     "cancelled";                                        *)
(*                 reds: networks _parse_table found (-1: not yet);        *)
(*                 saved: _save_results calls of line 477 that have run    *)
(*   red_task[m][n] pc: "none" | "fetch" | "done" | "failed" | "cancelled" *)
(*                 content: the page its fetch returned                    *)
(*   scrape        pc: "running" | "returned" | "raised" | "closed"        *)
(*   error         of a task or of scrape(): the exception it raised       *)
(***************************************************************************)
Muns == 0..(NumMun - 1)       \* enumerate(self.mun_payloads)
Reds == 1..MaxReds
DfNames == <<"payload", "invalid", "red">>     \* self.dataframes.keys()

ModelCodes == {26, 27}        \* a whitelisted and a foreign "Código"
\* a page: whether it holds the section and its table, and the table's codes
NoTable == [table |-> FALSE, codes |-> <<>>]
\* a content table lists a parameter once
Tables == {t \in UNION {[1..k -> ModelCodes] : k \in 0..MaxRows} :
              \A i, j \in DOMAIN t : t[i] = t[j] => i = j}
Contents == {NoTable} \cup {[table |-> TRUE, codes |-> t] : t \in Tables}
RunOutcomes == OutcomesOf({200, 400, 404, 503})

\* self.munid2names[mun_id]: the names of payload_df's row mun_id
munid2names(m) == [community_name |-> "Aragon", province |-> "Teruel", municipe |-> <<"mun", m>>]

\* SINACPayloadSraper._define_payload
define_payload(cod_comunidad, cod_provincia, cod_municipio) ==
    [codComunidad |-> cod_comunidad, codProvincia |-> cod_provincia,
     codMunicipio |-> cod_municipio, method |-> "Buscar"]

\* the payload table a finished discovery has left, in memory and in its
\* checkpoint: one row per municipality, under the names of munid2names
PayloadTable ==
    [k \in 1..NumMun |->
        [community_name |-> munid2names(k - 1).community_name,
         province |-> munid2names(k - 1).province,
         municipe |-> munid2names(k - 1).municipe,
         payload |-> define_payload(2, "44", k - 1)]]

LoadedDiscovery ==
    [NoDiscovery EXCEPT !.results_df = PayloadTable,
                        !.disk = [written |-> TRUE, rows |-> PayloadTable]]

\* the payload_df argument of SINACRedScraper(...): a table, or None
GivenTable(df) == [given |-> TRUE, df |-> df]
NoneGiven == [given |-> FALSE, df |-> <<>>]

\* pickle.load(open(path, 'rb')) of a file this run's pickle.dump wrote
pickle_load(file) == file.rows

\* SINACRedScraper._initialize_mun_payloads: the payload column as a list and
\* the three name columns as records; the table is loaded from the payload
\* checkpoint when none is given
initialize_mun_payloads(payload_df, file) ==
    LET df == IF payload_df.given THEN payload_df.df ELSE pickle_load(file)
    IN  [mun_payloads |-> [k \in 1..Len(df) |-> df[k].payload],
         munid2names |-> [k \in 1..Len(df) |->
                             [community_name |-> df[k].community_name,
                              province |-> df[k].province,
                              municipe |-> df[k].municipe]]]

\* config.py: the discovery checkpoint, and self.save_paths of
\* SINACRedScraper (RED_PAYLOAD_PATH, INVALID_PATH, RED_PATH)
PAYLOAD_PATH == "data/payloads.pkl"

SavePathsOverPayload ==
    [payload |-> "data/payloads.pkl", invalid |-> "data/invalid_municipalities.pkl",
     red |-> "data/red_data.pkl"]

save_paths ==
    [payload |-> "data/red_payloads.pkl", invalid |-> "data/invalid_municipalities.pkl",
     red |-> "data/red_data.pkl"]

\* the file at path after the _save_results of the tables i.. of DfNames:
\* a table saved to that path overwrites it
RECURSIVE FileAfterSaves(_, _, _)
FileAfterSaves(file, path, i) ==
    IF i > Len(DfNames) THEN file
    ELSE FileAfterSaves(IF save_paths[DfNames[i]] = path
                        THEN [written |-> TRUE, rows |-> dataframes[DfNames[i]]]
                        ELSE file,
                        path, i + 1)

\* the name the network listing gives network n (a network can serve
\* several municipalities under one name)
red_name(n) == <<"red", n>>

\* pd.read_html of the located table: one row per table row
read_html(content) ==
    [i \in 1..Len(content.codes) |-> [Codigo |-> content.codes[i], Valor |-> i]]

IsinKeepsAll(rows) == rows

\* df[df['Código'].isin(PARAMETER_CODES)]
isin(rows) == SelectSeq(rows, LAMBDA r : r.Codigo \in PARAMETER_CODES)

\* _parse_data: [exc, df].  Without the heading or the table soup.find is
\* None and pd.read_html raises.
parse_data(content) ==
    IF ~content.table THEN [exc |-> "ValueError", df |-> <<>>]
    ELSE [exc |-> "none", df |-> isin(read_html(content))]

TagRowsOtherMun(rows, m, n) ==
    [i \in 1..Len(rows) |->
        [CA |-> munid2names(0).community_name, Provincia |-> munid2names(0).province,
         Municipio |-> munid2names(0).municipe, Red |-> red_name(n),
         Codigo |-> rows[i].Codigo, Valor |-> rows[i].Valor]]

\* _process_red lines 429-432: the four name columns
TagRows(rows, m, n) ==
    [i \in 1..Len(rows) |->
        [CA |-> munid2names(m).community_name, Provincia |-> munid2names(m).province,
         Municipio |-> munid2names(m).municipe, Red |-> red_name(n),
         Codigo |-> rows[i].Codigo, Valor |-> rows[i].Valor]]

InvalidRowFirstMun(m) ==
    [CA |-> munid2names(0).community_name, Provincia |-> munid2names(0).province,
     Municipio |-> munid2names(0).municipe]

\* _process_mun_reds lines 459-464: the row of the invalid table
InvalidRow(m) ==
    [CA |-> munid2names(m).community_name, Provincia |-> munid2names(m).province,
     Municipio |-> munid2names(m).municipe]

UpdateProgressSkipsCount(p) ==
    IF p.callback
    THEN [p EXCEPT !.calls = Append(@, p.processed_municipalities)]
    ELSE p

\* _update_progress
update_progress(p) ==
    IF p.callback
    THEN [p EXCEPT !.processed_municipalities = @ + 1,
                   !.calls = Append(@, p.processed_municipalities + 1)]
    ELSE p

SaveResultsNothing(d, df_name) == d

\* _save_results(df_name): pickle.dump of the table over its file
save_results(d, df_name) ==
    [d EXCEPT ![df_name] = [written |-> TRUE, rows |-> dataframes[df_name]]]

\* the ways one call of the decorated _fetch_data can end, from attempt n on,
\* over every outcome of every attempt: "none" (it returns a body) or the
\* exception it raises.  The sleeps between its attempts touch nothing the
\* other tasks read.
RECURSIVE FetchEnds(_, _)
FetchEnds(phase, n) ==
    UNION {LET a == Attempt(phase, n, outcome)
           IN  IF a.next = "sleep" THEN FetchEnds(phase, n + 1) ELSE {a.error} :
           outcome \in RunOutcomes}

RedFetchEnds == FetchEnds("red", 1)

\* _fetch_data inside the run: on a closed session the POST raises
\* RuntimeError, which no retry predicate accepts
RunFetchEnds == IF scrape.session_closed THEN {"RuntimeError"} ELSE RedFetchEnds

\* the networks the portal has listed so far in the run
Listed == LET RECURSIVE sum(_)
              sum(S) == IF S = {} THEN 0
                        ELSE LET x == CHOOSE x \in S : TRUE
                             IN  (IF mun_task[x].reds > 0 THEN mun_task[x].reds ELSE 0)
                                 + sum(S \ {x})
          IN  sum(DOMAIN mun_task)

\* _process_mun_reds from its call to its first suspension after the network
\* list is in hand: the fetch raises, or it returns a page; no network there:
\* the invalid record, the progress update and return; else one _process_red
\* task per network.
MunFetch(m) ==
    /\ scrape.pc \in {"running", "raised"}
    /\ mun_task[m].pc = "fetch"
    /\ \E end \in RunFetchEnds, k \in 0..MaxReds :
         /\ Listed + k <= MaxReds
         /\ IF end # "none"
            THEN /\ k = 0
                 /\ mun_task' = [mun_task EXCEPT ![m].pc = "failed", ![m].error = end]
                 /\ UNCHANGED <<red_task, dataframes, progress>>
            ELSE IF k = 0
            THEN /\ mun_task' = [mun_task EXCEPT ![m].pc = "done", ![m].reds = 0]
                 /\ dataframes' = [dataframes EXCEPT !.invalid = pd_concat(@, <<InvalidRow(m)>>)]
                 /\ progress' = update_progress(progress)
                 /\ UNCHANGED red_task
            ELSE /\ mun_task' = [mun_task EXCEPT ![m].pc = "gather", ![m].reds = k]
                 /\ red_task' = [red_task EXCEPT ![m] =
                        [n \in Reds |-> IF n <= k THEN [@[n] EXCEPT !.pc = "fetch"]
                                        ELSE @[n]]]
                 /\ UNCHANGED <<dataframes, progress>>
    /\ UNCHANGED <<discovery, fetches, fetch, limiter, callers, disk, scrape>>

\* _process_red: the content fetch, then parse, tag and append
RedFetch(m, n) ==
    /\ scrape.pc \in {"running", "raised"}
    /\ red_task[m][n].pc = "fetch"
    /\ \E end \in RunFetchEnds, content \in Contents :
         LET red_data == parse_data(content)
         IN  IF end # "none"
             THEN /\ content = NoTable
                  /\ red_task' = [red_task EXCEPT ![m][n].pc = "failed",
                                                  ![m][n].error = end]
                  /\ UNCHANGED dataframes
             ELSE IF red_data.exc # "none"
             THEN /\ red_task' = [red_task EXCEPT ![m][n].pc = "failed",
                                                  ![m][n].content = content,
                                                  ![m][n].error = red_data.exc]
                  /\ UNCHANGED dataframes
             ELSE /\ red_task' = [red_task EXCEPT ![m][n].pc = "done",
                                                  ![m][n].content = content]
                  /\ dataframes' =
                         IF red_data.df # <<>>
                         THEN [dataframes EXCEPT !.red = pd_concat(@, TagRows(red_data.df, m, n))]
                         ELSE dataframes
    /\ UNCHANGED <<discovery, fetches, fetch, limiter, callers, mun_task, disk, progress, scrape>>

\* asyncio.gather of line 469 hands the first exception to _process_mun_reds,
\* which logs and raises it; the other networks' tasks keep running
GatherRaise(m) ==
    /\ scrape.pc \in {"running", "raised"}
    /\ mun_task[m].pc = "gather"
    /\ \E n \in Reds :
         /\ red_task[m][n].pc = "failed"
         /\ mun_task' = [mun_task EXCEPT ![m].pc = "failed",
                                         ![m].error = red_task[m][n].error]
    /\ UNCHANGED <<discovery, fetches, fetch, limiter, callers, red_task, dataframes, disk, progress, scrape>>

\* every network is done: line 477 starts the three _save_results
GatherDone(m) ==
    /\ scrape.pc \in {"running", "raised"}
    /\ mun_task[m].pc = "gather"
    /\ \A n \in Reds : n <= mun_task[m].reds => red_task[m][n].pc = "done"
    /\ mun_task' = [mun_task EXCEPT ![m].pc = "save"]
    /\ UNCHANGED <<discovery, fetches, fetch, limiter, callers, red_task, dataframes, disk, progress, scrape>>

\* asyncio.gather of line 477: _save_results for the tables i.. of DfNames,
\* in this order
RECURSIVE SaveFrom(_, _)
SaveFrom(d, i) ==
    IF i > Len(DfNames) THEN d ELSE SaveFrom(save_results(d, DfNames[i]), i + 1)

SaveResultsSkipped(m) ==
    /\ scrape.pc \in {"running", "raised"}
    /\ mun_task[m].pc = "save"
    /\ mun_task[m].saved = 0
    /\ mun_task' = [mun_task EXCEPT ![m].saved = Len(DfNames)]
    /\ UNCHANGED <<discovery, fetches, fetch, limiter, callers, red_task, dataframes, disk, progress, scrape>>

\* the three _save_results tasks of line 477 are queued together and none
\* suspends (its lock is free, pickle.dump is synchronous): they run one
\* after the other before any other task gets a turn
SaveResults(m) ==
    /\ scrape.pc \in {"running", "raised"}
    /\ mun_task[m].pc = "save"
    /\ mun_task[m].saved = 0
    /\ disk' = SaveFrom(disk, 1)
    /\ discovery' = [discovery EXCEPT !.disk = FileAfterSaves(@, PAYLOAD_PATH, 1)]
    /\ mun_task' = [mun_task EXCEPT ![m].saved = Len(DfNames)]
    /\ UNCHANGED <<fetches, fetch, limiter, callers, red_task, dataframes, progress, scrape>>

\* line 479, once the three saves are done
UpdateProgress(m) ==
    /\ scrape.pc \in {"running", "raised"}
    /\ mun_task[m].pc = "save"
    /\ mun_task[m].saved = Len(DfNames)
    /\ progress' = update_progress(progress)
    /\ mun_task' = [mun_task EXCEPT ![m].pc = "done"]
    /\ UNCHANGED <<discovery, fetches, fetch, limiter, callers, red_task, dataframes, disk, scrape>>

\* scrape(): every task awaited, the two tables are returned
ScrapeReturn ==
    /\ scrape.pc = "running"
    /\ \A m \in Muns : mun_task[m].pc = "done"
    /\ scrape' = [scrape EXCEPT !.pc = "returned", !.session_closed = TRUE]
    /\ UNCHANGED <<discovery, fetches, fetch, limiter, callers, mun_task, red_task, dataframes, disk, progress>>

ScrapeRaiseSwallowed ==
    /\ scrape.pc = "running"
    /\ \E m \in Muns : mun_task[m].pc = "failed"
    /\ scrape' = [scrape EXCEPT !.pc = "returned", !.session_closed = TRUE]
    /\ UNCHANGED <<discovery, fetches, fetch, limiter, callers, mun_task, red_task, dataframes, disk, progress>>

\* scrape(): "await f" raises a task's exception; leaving the "async with"
\* closes the session
ScrapeRaise ==
    /\ scrape.pc = "running"
    /\ \E m \in Muns :
         /\ mun_task[m].pc = "failed"
         /\ scrape' = [scrape EXCEPT !.pc = "raised", !.session_closed = TRUE,
                                     !.error = mun_task[m].error]
    /\ UNCHANGED <<discovery, fetches, fetch, limiter, callers, mun_task, red_task, dataframes, disk, progress>>

\* asyncio.run(self.scrape()) ends: the tasks still pending are cancelled
Shutdown ==
    /\ scrape.pc = "raised"
    /\ scrape' = [scrape EXCEPT !.pc = "closed"]
    /\ mun_task' = [m \in Muns |->
           IF mun_task[m].pc \in {"fetch", "gather", "save"}
           THEN [mun_task[m] EXCEPT !.pc = "cancelled"] ELSE mun_task[m]]
    /\ red_task' = [m \in Muns |-> [n \in Reds |->
           IF red_task[m][n].pc = "fetch"
           THEN [red_task[m][n] EXCEPT !.pc = "cancelled"] ELSE red_task[m][n]]]
    /\ UNCHANGED <<discovery, fetches, fetch, limiter, callers, dataframes, disk, progress>>

Init ==
    /\ mun_task = [m \in Muns |-> [pc |-> "fetch", reds |-> -1, saved |-> 0,
                                    error |-> "none"]]
    /\ red_task = [m \in Muns |-> [n \in Reds |->
                      [pc |-> "none", content |-> NoTable, error |-> "none"]]]
    /\ dataframes = [payload |-> <<>>, invalid |-> <<>>, red |-> <<>>]
    /\ disk = [payload |-> Unwritten, invalid |-> Unwritten, red |-> Unwritten]
    /\ \E cb \in BOOLEAN :
         progress = [callback |-> cb, processed_municipalities |-> 0, calls |-> <<>>]
    /\ discovery = LoadedDiscovery
    /\ \E payload_df \in {NoneGiven, GivenTable(LoadedDiscovery.results_df)} :
         scrape = [pc |-> "running", session_closed |-> FALSE, error |-> "none",
                   mun_payloads |->
                       initialize_mun_payloads(payload_df, LoadedDiscovery.disk).mun_payloads]
    /\ fetch = IdleFetch
    /\ limiter = IdleLimiter
    /\ callers = <<>>
    /\ fetches = <<>>

Next ==
    \/ \E m \in Muns : MunFetch(m)
    \/ \E m \in Muns, n \in Reds : RedFetch(m, n)
    \/ \E m \in Muns : GatherRaise(m)
    \/ \E m \in Muns : GatherDone(m)
    \/ \E m \in Muns : SaveResults(m)
    \/ \E m \in Muns : UpdateProgress(m)
    \/ ScrapeReturn
    \/ ScrapeRaise
    \/ Shutdown

Spec == Init /\ [][Next]_vars

(***************************************************************************)
(* SpecDiscovery: one run of SINACPayloadSraper.scrape().                  *)
(*                                                                         *)
(* discovery is a record:                                                  *)
(*   communities       self.communities, from the CA_codes given           *)
(*   comm_task[i]      the _process_community task of self.communities[i]: *)
(*                     pc: "fetch" | "gather" | "done" | "failed" |        *)
(*                         "cancelled";                                    *)
(*                     options: the <option> elements of the page its      *)
(*                         fetch returned, in document order               *)
(*   prov_task[i][j]   the _process_province task of the j-th province     *)
(*                     _parse_options kept for community i:                *)
(*                     pc: "none" | "fetch" | "gather" | "done" |          *)
(*                         "failed" | "cancelled"                          *)
(*   results_df        self.results_df                                     *)
(*   disk              the pickle file at self.save_path                   *)
(*   scrape            scrape() and its session, as in Spec                *)
(*                                                                         *)
(* The _process_municipality tasks of one province never suspend (df_lock  *)
(* is free: nothing is awaited while it is held) and are queued together:  *)
(* they run one after the other, in listing order, before any other task   *)
(* gets a turn; the province task, resumed by their gather, only returns.  *)
(* A gather of no task and a _save_results do not suspend.                 *)
(***************************************************************************)
\* config.py: the names of the communities (the first two of the 19)
CA_NAMES == <<"Andalucia", "Aragon">>

\* the <option> elements the portal's pages are made of: the "please select"
\* placeholder, then the k-th option of a listing: a labelled one, one
\* without text, the first one again, ...
Placeholder == [value |-> "", text |-> "Seleccione"]

ModelOption(k) ==
    [value |-> IF k % 2 = 1 THEN "01" ELSE "02",
     text |-> IF k = 2 THEN "" ELSE IF k % 2 = 1 THEN "Uno" ELSE "Dos"]

\* a listing page: its <option> elements in document order
Listings == {<<Placeholder>> \o [k \in 1..n |-> ModelOption(k)] : n \in 0..MaxOptions}

\* the lists of codes a scraper is built with: any codes with a name, in any
\* order, repeated or not, at most as many as there are names
CodeLists == UNION {[1..k -> DOMAIN CA_NAMES] : k \in 0..Len(CA_NAMES)}

Entries == DOMAIN CA_NAMES    \* indices of self.communities
Provs == 1..MaxOptions        \* indices of the provinces of one community

\* _initialize_communities: list(zip(self.CA_codes, CA_names))
initialize_communities(CA_codes) ==
    [i \in 1..Len(CA_codes) |-> [id |-> CA_codes[i], name |-> CA_NAMES[CA_codes[i]]]]

ParseOptionsKeepsAll(options) == options

\* _parse_options: (value, text) of every option whose value is not ''
parse_options(options) == SelectSeq(options, LAMBDA o : o.value # "")

NewRowProvinceAsMunicipality(community, province, municipality) ==
    [community_name |-> community.name, province |-> province.text,
     municipe |-> municipality.text,
     payload |-> define_payload(community.id, province.value, province.value)]

\* _process_municipality: the row it appends
new_row(community, province, municipality) ==
    [community_name |-> community.name, province |-> province.text,
     municipe |-> municipality.text,
     payload |-> define_payload(community.id, province.value, municipality.value)]

ProvinceRowsFirstOnly(community, province, municipalities) ==
    IF municipalities = <<>> THEN <<>>
    ELSE <<new_row(community, province, municipalities[1])>>

\* the rows the _process_municipality tasks of one province append
ProvinceRows(community, province, municipalities) ==
    [k \in 1..Len(municipalities) |-> new_row(community, province, municipalities[k])]

PayloadSaveResultsEmpty(d) ==
    [d EXCEPT !.disk = [written |-> TRUE, rows |-> <<>>]]

\* SINACPayloadSraper._save_results: pickle.dump of results_df over the file
payload_save_results(d) ==
    [d EXCEPT !.disk = [written |-> TRUE, rows |-> d.results_df]]

PayloadFetchEnds == FetchEnds("payload", 1)

\* _fetch_data inside the discovery run: RuntimeError on a closed session
DiscoveryFetchEnds ==
    IF discovery.scrape.session_closed THEN {"RuntimeError"} ELSE PayloadFetchEnds

RECURSIVE SumOf(_, _)
SumOf(f, S) ==
    IF S = {} THEN 0
    ELSE LET x == CHOOSE x \in S : TRUE IN f[x] + SumOf(f, S \ {x})

\* the options with a value the portal has served so far in the run
Served ==
    LET ct == discovery.comm_task
        pt == discovery.prov_task
    IN  SumOf([i \in DOMAIN ct |->
                  Len(parse_options(ct[i].options))
                  + SumOf([j \in Provs |-> Len(parse_options(pt[i][j].options))], Provs)],
              DOMAIN ct)

\* the provinces _parse_options found for community i
ProvincesOf(i) == parse_options(discovery.comm_task[i].options)

\* the municipalities _parse_options found for province j of community i
MunicipalitiesOf(i, j) == parse_options(discovery.prov_task[i][j].options)

\* _process_community from its call to its first suspension after the
\* province listing is in hand: the fetch raises; or it returns a page with
\* no province: the gather of nothing and _save_results run at once; or one
\* _process_province task per province is started.
ProcessCommunity(i) ==
    /\ discovery.scrape.pc \in {"running", "raised"}
    /\ i \in DOMAIN discovery.comm_task
    /\ discovery.comm_task[i].pc = "fetch"
    /\ \E end \in DiscoveryFetchEnds, page \in Listings :
         /\ Served + Len(parse_options(page)) <= MaxListed
         /\ IF end # "none"
            THEN /\ page = <<Placeholder>>
                 /\ discovery' = [discovery EXCEPT !.comm_task[i].pc = "failed",
                                                   !.comm_task[i].error = end]
            ELSE IF parse_options(page) = <<>>
            THEN discovery' = payload_save_results(
                     [discovery EXCEPT !.comm_task[i].pc = "done",
                                       !.comm_task[i].options = page])
            ELSE discovery' = [discovery EXCEPT
                     !.comm_task[i].pc = "gather",
                     !.comm_task[i].options = page,
                     !.prov_task[i] = [j \in Provs |->
                         IF j <= Len(parse_options(page))
                         THEN [@[j] EXCEPT !.pc = "fetch"] ELSE @[j]]]
    /\ UNCHANGED <<fetch, limiter, callers, mun_task, red_task, dataframes, disk, progress,
                   scrape, fetches>>

\* _process_province up to its gather: the fetch raises; or it returns a page
\* with no municipality and the task returns; or one _process_municipality
\* task per municipality is started.
ProcessProvince(i, j) ==
    /\ discovery.scrape.pc \in {"running", "raised"}
    /\ i \in DOMAIN discovery.prov_task
    /\ discovery.prov_task[i][j].pc = "fetch"
    /\ \E end \in DiscoveryFetchEnds, page \in Listings :
         /\ Served + Len(parse_options(page)) <= MaxListed
         /\ IF end # "none"
            THEN /\ page = <<Placeholder>>
                 /\ discovery' = [discovery EXCEPT !.prov_task[i][j].pc = "failed",
                                                   !.prov_task[i][j].error = end]
            ELSE discovery' = [discovery EXCEPT
                     !.prov_task[i][j].pc =
                         IF parse_options(page) = <<>> THEN "done" ELSE "gather",
                     !.prov_task[i][j].options = page]
    /\ UNCHANGED <<fetch, limiter, callers, mun_task, red_task, dataframes, disk, progress,
                   scrape, fetches>>

\* the _process_municipality tasks of province j of community i
ProcessMunicipalities(i, j) ==
    /\ discovery.scrape.pc \in {"running", "raised"}
    /\ i \in DOMAIN discovery.prov_task
    /\ discovery.prov_task[i][j].pc = "gather"
    /\ discovery' = [discovery EXCEPT
           !.results_df = pd_concat(@, ProvinceRows(discovery.communities[i],
                                                    ProvincesOf(i)[j],
                                                    MunicipalitiesOf(i, j))),
           !.prov_task[i][j].pc = "done"]
    /\ UNCHANGED <<fetch, limiter, callers, mun_task, red_task, dataframes, disk, progress,
                   scrape, fetches>>

\* asyncio.gather of line 217 hands the first exception to
\* _process_community, which logs and raises it; nothing is saved
CommunityGatherRaise(i) ==
    /\ discovery.scrape.pc \in {"running", "raised"}
    /\ i \in DOMAIN discovery.comm_task
    /\ discovery.comm_task[i].pc = "gather"
    /\ \E j \in Provs :
         /\ discovery.prov_task[i][j].pc = "failed"
         /\ discovery' = [discovery EXCEPT
                !.comm_task[i].pc = "failed",
                !.comm_task[i].error = discovery.prov_task[i][j].error]
    /\ UNCHANGED <<fetch, limiter, callers, mun_task, red_task, dataframes, disk, progress,
                   scrape, fetches>>

CommunitySaveSkipped(i) ==
    /\ discovery.scrape.pc \in {"running", "raised"}
    /\ i \in DOMAIN discovery.comm_task
    /\ discovery.comm_task[i].pc = "gather"
    /\ \A j \in Provs : j <= Len(ProvincesOf(i)) => discovery.prov_task[i][j].pc = "done"
    /\ discovery' = [discovery EXCEPT !.comm_task[i].pc = "done"]
    /\ UNCHANGED <<fetch, limiter, callers, mun_task, red_task, dataframes, disk, progress,
                   scrape, fetches>>

\* every province is done: line 224 saves the table
CommunitySave(i) ==
    /\ discovery.scrape.pc \in {"running", "raised"}
    /\ i \in DOMAIN discovery.comm_task
    /\ discovery.comm_task[i].pc = "gather"
    /\ \A j \in Provs : j <= Len(ProvincesOf(i)) => discovery.prov_task[i][j].pc = "done"
    /\ discovery' = payload_save_results([discovery EXCEPT !.comm_task[i].pc = "done"])
    /\ UNCHANGED <<fetch, limiter, callers, mun_task, red_task, dataframes, disk, progress,
                   scrape, fetches>>

\* scrape(): the gather of line 234 is done, results_df is returned
PayloadScrapeReturn ==
    /\ discovery.scrape.pc = "running"
    /\ \A i \in DOMAIN discovery.comm_task : discovery.comm_task[i].pc = "done"
    /\ discovery' = [discovery EXCEPT !.scrape.pc = "returned",
                                      !.scrape.session_closed = TRUE]
    /\ UNCHANGED <<fetch, limiter, callers, mun_task, red_task, dataframes, disk, progress,
                   scrape, fetches>>

\* scrape(): the gather of line 234 raises a community's exception; leaving
\* the "async with" closes the session
PayloadScrapeRaise ==
    /\ discovery.scrape.pc = "running"
    /\ \E i \in DOMAIN discovery.comm_task :
         /\ discovery.comm_task[i].pc = "failed"
         /\ discovery' = [discovery EXCEPT
                !.scrape.pc = "raised",
                !.scrape.session_closed = TRUE,
                !.scrape.error = discovery.comm_task[i].error]
    /\ UNCHANGED <<fetch, limiter, callers, mun_task, red_task, dataframes, disk, progress,
                   scrape, fetches>>

\* the event loop's run ends: the tasks still pending are cancelled
PayloadShutdown ==
    /\ discovery.scrape.pc = "raised"
    /\ discovery' = [discovery EXCEPT
           !.scrape.pc = "closed",
           !.comm_task = [i \in DOMAIN @ |->
               IF @[i].pc \in {"fetch", "gather"}
               THEN [@[i] EXCEPT !.pc = "cancelled"] ELSE @[i]],
           !.prov_task = [i \in DOMAIN @ |-> [j \in Provs |->
               IF @[i][j].pc \in {"fetch", "gather"}
               THEN [@[i][j] EXCEPT !.pc = "cancelled"] ELSE @[i][j]]]]
    /\ UNCHANGED <<fetch, limiter, callers, mun_task, red_task, dataframes, disk, progress,
                   scrape, fetches>>

InitDiscovery ==
    /\ \E CA_codes \in CodeLists :
         discovery =
             [communities |-> initialize_communities(CA_codes),
              comm_task |-> [i \in 1..Len(CA_codes) |->
                                [pc |-> "fetch", options |-> <<>>, error |-> "none"]],
              prov_task |-> [i \in 1..Len(CA_codes) |-> [j \in Provs |->
                                [pc |-> "none", options |-> <<>>, error |-> "none"]]],
              results_df |-> <<>>,
              disk |-> Unwritten,
              scrape |-> [pc |-> "running", session_closed |-> FALSE, error |-> "none"]]
    /\ fetch = IdleFetch
    /\ limiter = IdleLimiter
    /\ callers = <<>>
    /\ mun_task = <<>>
    /\ red_task = <<>>
    /\ dataframes = <<>>
    /\ disk = <<>>
    /\ progress = <<>>
    /\ scrape = NoRun
    /\ fetches = <<>>

NextDiscovery ==
    \/ \E i \in Entries : ProcessCommunity(i)
    \/ \E i \in Entries, j \in Provs : ProcessProvince(i, j)
    \/ \E i \in Entries, j \in Provs : ProcessMunicipalities(i, j)
    \/ \E i \in Entries : CommunityGatherRaise(i)
    \/ \E i \in Entries : CommunitySave(i)
    \/ PayloadScrapeReturn
    \/ PayloadScrapeRaise
    \/ PayloadShutdown

SpecDiscovery == InitDiscovery /\ [][NextDiscovery]_vars

(***************************************************************************)
(* SpecScrape: one scrape() run of either scraper.                         *)
(***************************************************************************)
InitScrape == Init \/ InitDiscovery

NextScrape == Next \/ NextDiscovery

SpecScrape == InitScrape /\ [][NextScrape]_vars

(***************************************************************************)
(* SpecCheckpoint: _save_results at the grain of its file operations, in a *)
(* process that can stop at any point (kill, power loss).                  *)
(*   pickle.dump(self.dataframes[df_name],                                 *)
(*               open(self.save_paths[df_name], 'wb'))                     *)
(* open(..., 'wb') truncates the file; pickle.dump writes the stream, which *)
(* reaches the file in one or several flushes; the handle is closed when   *)
(* the statement ends.  Nothing else of the program runs in between: the   *)
(* call is synchronous.                                                    *)
(*   dataframes[name]   the table: its rows, numbered as appended          *)
(*   disk[name]         the file: written (it exists), rows (those whose   *)
(*                      bytes are in it), open (the stream in it is not    *)
(*                      finished)                                          *)
(*   scrape.pc          "running" | "stopped"                              *)
(***************************************************************************)
NoFileOpen == \A name \in DOMAIN disk : ~disk[name].open

\* a task appends a row to the invalid or the measurement table
CkAppend(name) ==
    /\ scrape.pc = "running"
    /\ NoFileOpen
    /\ name \in {"invalid", "red"}
    /\ Len(dataframes.invalid) + Len(dataframes.red) < MaxRows
    /\ dataframes' = [dataframes EXCEPT
                         ![name] = pd_concat(@, <<Len(dataframes[name]) + 1>>)]
    /\ UNCHANGED <<fetch, limiter, callers, mun_task, red_task, disk, progress, scrape,
                   discovery, fetches>>

\* _save_results: open(path, 'wb') creates or truncates the file
CkOpen(name) ==
    /\ scrape.pc = "running"
    /\ NoFileOpen
    /\ disk' = [disk EXCEPT ![name] = [written |-> TRUE, rows |-> <<>>, open |-> TRUE]]
    /\ UNCHANGED <<fetch, limiter, callers, mun_task, red_task, dataframes, progress,
                   scrape, discovery, fetches>>

\* pickle.dump: the bytes of one more row reach the file
CkWrite(name) ==
    /\ scrape.pc = "running"
    /\ disk[name].open
    /\ Len(disk[name].rows) < Len(dataframes[name])
    /\ disk' = [disk EXCEPT ![name].rows = SubSeq(dataframes[name], 1, Len(@) + 1)]
    /\ UNCHANGED <<fetch, limiter, callers, mun_task, red_task, dataframes, progress,
                   scrape, discovery, fetches>>

\* pickle.dump returns and the handle is closed: the stream is complete
CkClose(name) ==
    /\ scrape.pc = "running"
    /\ disk[name].open
    /\ disk[name].rows = dataframes[name]
    /\ disk' = [disk EXCEPT ![name].open = FALSE]
    /\ UNCHANGED <<fetch, limiter, callers, mun_task, red_task, dataframes, progress,
                   scrape, discovery, fetches>>

\* the process stops
CkStop ==
    /\ scrape.pc = "running"
    /\ scrape' = [scrape EXCEPT !.pc = "stopped"]
    /\ UNCHANGED <<fetch, limiter, callers, mun_task, red_task, dataframes, disk, progress,
                   discovery, fetches>>

InitCheckpoint ==
    /\ dataframes = [payload |-> <<>>, invalid |-> <<>>, red |-> <<>>]
    /\ disk = [name \in {"payload", "invalid", "red"} |->
                  [written |-> FALSE, rows |-> <<>>, open |-> FALSE]]
    /\ scrape = [pc |-> "running", session_closed |-> FALSE, error |-> "none"]
    /\ fetch = IdleFetch
    /\ limiter = IdleLimiter
    /\ callers = <<>>
    /\ mun_task = <<>>
    /\ red_task = <<>>
    /\ progress = <<>>
    /\ discovery = <<>>
    /\ fetches = <<>>

NextCheckpoint ==
    \/ \E name \in {"payload", "invalid", "red"} : CkAppend(name)
    \/ \E name \in {"payload", "invalid", "red"} : CkOpen(name)
    \/ \E name \in {"payload", "invalid", "red"} : CkWrite(name)
    \/ \E name \in {"payload", "invalid", "red"} : CkClose(name)
    \/ CkStop

SpecCheckpoint == InitCheckpoint /\ [][NextCheckpoint]_vars

(***************************************************************************)
(* SpecThrottle: the _fetch_data calls of the concurrent tasks of one      *)
(* scraper, one call per caller, with the scraper's RateLimiter.           *)
(*   fetches.phase      the scraper: "payload" or "red"                    *)
(*   fetches.calls[c]   pc: "call" (an attempt is about to start) |        *)
(*                          "acquire" (inside rate_limiter.acquire()) |    *)
(*                          "sleep" (tenacity's wait) | "returned" |       *)
(*                          "raised";                                      *)
(*                      attempt_number: tenacity's count                   *)
(*   fetches.posts      every session.post call: its time and its caller   *)
(* acquire() returns and session.post is called in one stretch: no await   *)
(* that suspends lies between them.                                        *)
(***************************************************************************)
AcquiresLimiterNever(phase) == FALSE

\* the first statement of _fetch_data: "await self.rate_limiter.acquire()"
\* in SINACRedScraper, commented out in SINACPayloadSraper
acquires_limiter(phase) == phase = "red"

\* session.post is called by caller c and comes to outcome: tenacity returns
\* the body, raises, or sleeps before the next attempt
Posted(c, outcome) ==
    LET a == Attempt(fetches.phase, fetches.calls[c].attempt_number, outcome)
    IN  [fetches EXCEPT !.calls[c].pc = a.next,
                        !.posts = Append(@, [at |-> limiter.now, by |-> c])]

\* after a step of acquire() by caller c: the POST if the grant was given
AfterAcquire(c) ==
    \E outcome \in RunOutcomes :
        fetches' = IF callers'[c] = "idle"
                   THEN Posted(c, outcome)
                   ELSE [fetches EXCEPT !.calls[c].pc = "acquire"]

\* an attempt of _fetch_data starts: acquire() is called in extraction, and
\* the POST follows at once when the grant is immediate; in discovery the
\* POST is the first thing done
StartAttempt(c) ==
    /\ fetches.calls[c].pc = "call"
    /\ IF acquires_limiter(fetches.phase)
       THEN /\ IF LockFree(limiter)
               THEN Check([limiter EXCEPT !.locked = TRUE, !.acquires = @ + 1], c)
               ELSE /\ limiter' = [limiter EXCEPT !.waiters = Append(@, c),
                                                  !.acquires = @ + 1]
                    /\ callers' = [callers EXCEPT ![c] = "waiting"]
            /\ AfterAcquire(c)
       ELSE /\ \E outcome \in RunOutcomes : fetches' = Posted(c, outcome)
            /\ UNCHANGED <<limiter, callers>>
    /\ UNCHANGED <<fetch, mun_task, red_task, dataframes, disk, progress, scrape, discovery>>

\* an attempt starts, while fewer than MaxAcquires have
ThrottledAttempt(c) ==
    /\ IF acquires_limiter(fetches.phase)
       THEN limiter.acquires < MaxAcquires
       ELSE Len(fetches.posts) < MaxAcquires
    /\ StartAttempt(c)

\* acquire(): the queued caller takes the lock
ThrottledResume(c) ==
    /\ fetches.calls[c].pc = "acquire"
    /\ callers[c] = "waiting"
    /\ c \in limiter.woken
    /\ Check([limiter EXCEPT
                 !.waiters = SelectSeq(@, LAMBDA w : w # c),
                 !.woken = @ \ {c},
                 !.locked = TRUE], c)
    /\ AfterAcquire(c)
    /\ UNCHANGED <<fetch, mun_task, red_task, dataframes, disk, progress, scrape, discovery>>

\* acquire(): asyncio.sleep returns, the grant is given and the POST follows
ThrottledWake(c) ==
    /\ fetches.calls[c].pc = "acquire"
    /\ callers[c] = "sleeping"
    /\ limiter.now >= limiter.wake_at
    /\ limiter' = Grant(limiter)
    /\ callers' = [callers EXCEPT ![c] = "idle"]
    /\ AfterAcquire(c)
    /\ UNCHANGED <<fetch, mun_task, red_task, dataframes, disk, progress, scrape, discovery>>

\* tenacity's wait is over: the next attempt
ThrottledRetry(c) ==
    /\ fetches.calls[c].pc = "sleep"
    /\ fetches' = [fetches EXCEPT !.calls[c].pc = "call",
                                  !.calls[c].attempt_number = @ + 1]
    /\ UNCHANGED <<fetch, limiter, callers, mun_task, red_task, dataframes, disk, progress,
                   scrape, discovery>>

\* the clock ticks
ThrottleTick ==
    /\ limiter.now < limiter.start + MaxTicks
    /\ limiter' = [limiter EXCEPT !.now = @ + 1]
    /\ UNCHANGED <<fetch, callers, mun_task, red_task, dataframes, disk, progress, scrape,
                   discovery, fetches>>

InitThrottle ==
    /\ \E ph \in Phases :
         fetches = [phase |-> ph,
                    calls |-> [c \in Callers |-> [pc |-> "call", attempt_number |-> 1]],
                    posts |-> <<>>]
    /\ \E iv \in 1..MaxInterval :
         limiter = [IdleLimiter EXCEPT !.now = MaxInterval, !.start = MaxInterval,
                                       !.interval = iv]
    /\ callers = [c \in Callers |-> "idle"]
    /\ fetch = IdleFetch
    /\ mun_task = <<>>
    /\ red_task = <<>>
    /\ dataframes = <<>>
    /\ disk = <<>>
    /\ progress = <<>>
    /\ scrape = <<>>
    /\ discovery = <<>>

NextThrottle ==
    \/ \E c \in Callers : ThrottledAttempt(c)
    \/ \E c \in Callers : ThrottledResume(c)
    \/ \E c \in Callers : ThrottledWake(c)
    \/ \E c \in Callers : ThrottledRetry(c)
    \/ ThrottleTick

SpecThrottle == InitThrottle /\ [][NextThrottle]_vars

(***************************************************************************)
(* SpecGuards: the guards of one scraper.  Each caller is the chain of one *)
(* _fetch_data call, the append that follows its return, and the          *)
(* _save_results calls of the task that gathered it.  Every state is a     *)
(* point at which all tasks are suspended or finished: an action runs one  *)
(* task from one suspending await to the next.                             *)
(*   scrape.df_locks[name]   the asyncio.Lock of table name: self.df_locks *)
(*                           in SINACRedScraper; self.df_lock, under       *)
(*                           "payload", in SINACPayloadSraper              *)
(*   fetches.calls[c]        as in SpecThrottle, and pc "save"             *)
(*                           (_save_results calls to come; saved counts    *)
(*                           those done) | "done"                          *)
(***************************************************************************)
\* asyncio.Lock()
NewLock == [locked |-> FALSE, waiters |-> <<>>, woken |-> {}]

\* the table a task appends to under its guard: self.results_df in
\* _process_municipality; 'invalid' in _process_mun_reds, 'red' in _process_red
AppendTargets(phase) == IF phase = "payload" THEN {"payload"} ELSE {"invalid", "red"}

\* the tables _save_results is called for: the one table of discovery, or
\* self.dataframes.keys()
SaveTargets(phase) == IF phase = "payload" THEN <<"payload">> ELSE DfNames

\* "async with lock:" around a body without an await: the lock is taken,
\* the body runs and the lock is released before the task can be suspended
WithGuard(name) ==
    [scrape EXCEPT !.df_locks[name] = Release([@ EXCEPT !.locked = TRUE])]

\* pd.concat under the table's guard.  A municipality without networks is
\* recorded as invalid and nothing is saved for it.
GuardedAppend(c) ==
    /\ fetches.calls[c].pc = "returned"
    /\ \E name \in AppendTargets(fetches.phase) :
         /\ LockFree(scrape.df_locks[name])
         /\ dataframes' = [dataframes EXCEPT ![name] = pd_concat(@, <<c>>)]
         /\ scrape' = WithGuard(name)
         /\ fetches' = [fetches EXCEPT
                           !.calls[c].pc = IF name = "invalid" THEN "done" ELSE "save"]
    /\ UNCHANGED <<fetch, limiter, callers, mun_task, red_task, disk, progress, discovery>>

\* _save_results(df_name): pickle.dump under the table's guard
GuardedSave(c) ==
    LET call == fetches.calls[c]
        targets == SaveTargets(fetches.phase)
        name == targets[call.saved + 1]
    IN  /\ call.pc = "save"
        /\ LockFree(scrape.df_locks[name])
        /\ disk' = save_results(disk, name)
        /\ scrape' = WithGuard(name)
        /\ fetches' = [fetches EXCEPT
                          !.calls[c].saved = @ + 1,
                          !.calls[c].pc = IF call.saved + 1 = Len(targets)
                                          THEN "done" ELSE "save"]
        /\ UNCHANGED <<fetch, limiter, callers, mun_task, red_task, dataframes, progress,
                       discovery>>

InitGuards ==
    /\ \E ph \in Phases :
         fetches = [phase |-> ph,
                    calls |-> [c \in Callers |->
                                  [pc |-> "call", attempt_number |-> 1, saved |-> 0]],
                    posts |-> <<>>]
    /\ \E iv \in 1..MaxInterval :
         limiter = [IdleLimiter EXCEPT !.now = MaxInterval, !.start = MaxInterval,
                                       !.interval = iv]
    /\ callers = [c \in Callers |-> "idle"]
    /\ scrape = [df_locks |-> [name \in {"payload", "invalid", "red"} |-> NewLock]]
    /\ dataframes = [payload |-> <<>>, invalid |-> <<>>, red |-> <<>>]
    /\ disk = [payload |-> Unwritten, invalid |-> Unwritten, red |-> Unwritten]
    /\ fetch = IdleFetch
    /\ mun_task = <<>>
    /\ red_task = <<>>
    /\ progress = <<>>
    /\ discovery = <<>>

NextGuards ==
    \/ \E c \in Callers : ThrottledAttempt(c)
    \/ \E c \in Callers : ThrottledResume(c)
    \/ \E c \in Callers : ThrottledWake(c)
    \/ \E c \in Callers : ThrottledRetry(c)
    \/ ThrottleTick
    \/ \E c \in Callers : GuardedAppend(c)
    \/ \E c \in Callers : GuardedSave(c)

SpecGuards == InitGuards /\ [][NextGuards]_vars

(***************************************************************************)
(* SpecRun: one run of SINACRedScraper.scrape() down to its fetches: each  *)
(* caller is a task whose _fetch_data call goes through the rate limiter   *)
(* and tenacity's retries, and the run ends as scrape() and asyncio.run    *)
(* end it.  No bound stops an attempt or the clock: the clock is moved     *)
(* only while a sleep inside acquire() is pending.  FairRun adds the fair  *)
(* scheduling of the event loop: every task that can go on does.           *)
(*   scrape.pc          "running" | "returned" | "raised" | "closed"       *)
(*   scrape.ended       how scrape() ended: "none" | "returned" | "raised" *)
(*   fetches.calls[c]   as in SpecThrottle, and pc "cancelled"             *)
(***************************************************************************)
\* time passes while the holder of the limiter's lock sleeps
SleepTick ==
    /\ \E c \in Callers : callers[c] = "sleeping"
    /\ limiter.now < limiter.wake_at
    /\ limiter' = [limiter EXCEPT !.now = @ + 1]
    /\ UNCHANGED <<fetch, callers, mun_task, red_task, dataframes, disk, progress, scrape,
                   discovery, fetches>>

\* scrape(): every task awaited in the as_completed loop has returned
RunReturn ==
    /\ scrape.pc = "running"
    /\ \A c \in Callers : fetches.calls[c].pc = "returned"
    /\ scrape' = [scrape EXCEPT !.pc = "returned", !.ended = "returned"]
    /\ UNCHANGED <<fetch, limiter, callers, mun_task, red_task, dataframes, disk, progress,
                   discovery, fetches>>

\* scrape(): "await f" raises what a task raised; the exception is logged
\* and raised again
RunRaise ==
    /\ scrape.pc = "running"
    /\ \E c \in Callers : fetches.calls[c].pc = "raised"
    /\ scrape' = [scrape EXCEPT !.pc = "raised", !.ended = "raised"]
    /\ UNCHANGED <<fetch, limiter, callers, mun_task, red_task, dataframes, disk, progress,
                   discovery, fetches>>

\* asyncio.run: scrape() has ended, the tasks still pending are cancelled;
\* a task cancelled inside acquire() leaves it without a grant
RunShutdown ==
    /\ scrape.pc \in {"returned", "raised"}
    /\ scrape' = [scrape EXCEPT !.pc = "closed"]
    /\ fetches' = [fetches EXCEPT !.calls = [c \in Callers |->
                      IF fetches.calls[c].pc \in {"returned", "raised"}
                      THEN fetches.calls[c]
                      ELSE [fetches.calls[c] EXCEPT !.pc = "cancelled"]]]
    /\ callers' = [c \in Callers |-> "idle"]
    /\ limiter' = [limiter EXCEPT !.locked = FALSE, !.waiters = <<>>, !.woken = {}]
    /\ UNCHANGED <<fetch, mun_task, red_task, dataframes, disk, progress, discovery>>

InitRun ==
    /\ fetches = [phase |-> "red",
                  calls |-> [c \in Callers |-> [pc |-> "call", attempt_number |-> 1]],
                  posts |-> <<>>]
    /\ \E iv \in 1..MaxInterval :
         limiter = [IdleLimiter EXCEPT !.now = MaxInterval, !.start = MaxInterval,
                                       !.interval = iv]
    /\ callers = [c \in Callers |-> "idle"]
    /\ scrape = [pc |-> "running", ended |-> "none"]
    /\ fetch = IdleFetch
    /\ mun_task = <<>>
    /\ red_task = <<>>
    /\ dataframes = <<>>
    /\ disk = <<>>
    /\ progress = <<>>
    /\ discovery = <<>>

\* what task c can do when the event loop runs it
TaskStep(c) ==
    \/ StartAttempt(c)
    \/ ThrottledResume(c)
    \/ ThrottledWake(c)
    \/ ThrottledRetry(c)

NextRun ==
    \/ \E c \in Callers : TaskStep(c)
    \/ SleepTick
    \/ RunReturn
    \/ RunRaise
    \/ RunShutdown

SpecRun == InitRun /\ [][NextRun]_vars

\* the event loop runs every task that is ready, timers fire, and scrape()
\* and asyncio.run go on when they can
FairRun ==
    /\ SpecRun
    /\ \A c \in Callers : WF_vars(TaskStep(c))
    /\ WF_vars(SleepTick)
    /\ WF_vars(RunReturn)
    /\ WF_vars(RunRaise)
    /\ WF_vars(RunShutdown)

(***************************************************************************)
(* Claims about _fetch_data and _handle_response                           *)
(***************************************************************************)
RetryableFault(exc) == exc \in {"TooManyRequestsError", "ServerError", "NetworkError"}

AllRetryable(hist) == \A i \in 1..Len(hist) : RetryableFault(hist[i])

\* C1: in both phases a fetch whose every attempt ends in a retryable fault
\* (429, status >= 500, timeout/connection fault) makes exactly 4 POSTs and
\* then raises; it is not over before the 4th; a fetch whose first attempt
\* fails retryably and whose second succeeds returns the second attempt's
\* body, without raising, after exactly 2 POSTs.
C1_RetryPolicy ==
    /\ fetch.pc \in {"call", "sleep", "returned", "raised"} =>
         /\ (AllRetryable(fetch.hist) /\ Len(fetch.hist) < 4) =>
                /\ fetch.pc \in {"call", "sleep"}
                /\ fetch.posts = Len(fetch.hist)
         /\ (AllRetryable(fetch.hist) /\ Len(fetch.hist) >= 4) =>
                /\ fetch.pc = "raised"
                /\ fetch.posts = 4
                /\ fetch.error # "none"
         /\ (Len(fetch.hist) >= 2 /\ RetryableFault(fetch.hist[1]) /\ fetch.hist[2] = "none") =>
                /\ fetch.pc = "returned"
                /\ fetch.posts = 2
                /\ fetch.error = "none"
                /\ fetch.result.attempt = 2
                /\ fetch.result.status = fetch.last.status

C1_Witness ==
    /\ fetch.pc = "raised"
    /\ fetch.posts = 4
    /\ AllRetryable(fetch.hist)
    /\ fetch.hist[1] = "TooManyRequestsError"
    /\ fetch.hist[4] = "NetworkError"

\* C2 (as claimed): in both phases a response classified as a request error
\* (4xx other than 429, and other than 404 in extraction) is never retried:
\* it is the fetch's last POST, the only one when it answers the first
\* attempt, and RequestError surfaces to the caller at once.
C2_FatalNeverRetried ==
    \A i \in 1..Len(fetch.hist) :
        fetch.hist[i] = "RequestError" =>
            /\ i = Len(fetch.hist)
            /\ fetch.posts = i
            /\ fetch.pc = "raised"
            /\ fetch.error = "RequestError"

\* C3: for every status s, _handle_response of each phase yields: 429 ->
\* TooManyRequestsError; s >= 500 -> ServerError; 400 <= s < 500, not 429 (and
\* not 404 in extraction) -> RequestError; s < 400 -> the body of the response
\* (when it can be read).  Every status gets exactly one of these; the 404 of
\* the extraction phase is the body as well.
C3_Classifier ==
    fetch.pc \in {"returned", "raised"} =>
        LET s == fetch.last.status
            c == fetch.hist[1]
            fatal == s >= 400 /\ s < 500 /\ s # 429 /\ ~(fetch.phase = "red" /\ s = 404)
            success == s < 400 \/ (fetch.phase = "red" /\ s = 404)
        IN  /\ (s = 429) => (c = "TooManyRequestsError" /\ fetch.pc = "raised")
            /\ (s >= 500) => (c = "ServerError" /\ fetch.pc = "raised")
            /\ fatal => (c = "RequestError" /\ fetch.pc = "raised")
            /\ (success /\ fetch.last.readOk) =>
                   (c = "none" /\ fetch.pc = "returned" /\ fetch.result.status = s)
            /\ (c = "TooManyRequestsError") => (s = 429)
            /\ (c = "ServerError") => (s >= 500)
            /\ (c = "RequestError") => fatal
            /\ (c = "none") => success
            /\ Cardinality({x \in {s = 429, s >= 500 /\ s # 429, fatal, success} : x}) >= 1
            /\ ~(s = 429 /\ s >= 500) /\ ~(s = 429 /\ fatal) /\ ~(s = 429 /\ success)
            /\ ~(s >= 500 /\ fatal) /\ ~(s >= 500 /\ success) /\ ~(fatal /\ success)

C3_Witness ==
    /\ fetch.pc = "raised"
    /\ fetch.phase = "red"
    /\ fetch.last.status = 499
    /\ fetch.hist = <<"RequestError">>

\* C4: a 404 is a soft success only in extraction: there the fetch logs the
\* request payload and returns the response body on that same attempt, with
\* no exception and no retry; in discovery a 404 raises RequestError at once.
C4_NotFound ==
    (fetch.pc \in {"sleep", "returned", "raised"}
        /\ fetch.last.kind = "response" /\ fetch.last.status = 404) =>
        /\ (fetch.phase = "red" /\ fetch.last.readOk) =>
              /\ fetch.pc = "returned"
              /\ fetch.error = "none"
              /\ fetch.result = [attempt |-> fetch.posts, status |-> 404]
              /\ fetch.hist[Len(fetch.hist)] = "none"
              /\ fetch.log # <<>>
              /\ fetch.log[Len(fetch.log)] = "Requesting URL with payload"
        /\ (fetch.phase = "payload") =>
              /\ fetch.pc = "raised"
              /\ fetch.error = "RequestError"
              /\ fetch.hist[Len(fetch.hist)] = "RequestError"

C4_Witness ==
    /\ fetch.phase = "red"
    /\ fetch.pc = "returned"
    /\ fetch.last.status = 404
    /\ fetch.posts = 2
    /\ fetch.hist = <<"ServerError", "none">>

(***************************************************************************)
(* Claims about RateLimiter                                                *)
(***************************************************************************)
\* C8: with a limiter of R requests per second shared by concurrent callers,
\* two successive grants of acquire() are at least 1/R apart, so N grants take
\* at least (N-1)/R from the start; the check of last_request_time and its
\* update belong to one caller at a time: while a caller is between the two
\* it holds the lock, no other caller is, and last_request_time is untouched.
C8_RateLimit ==
    limiter.interval > 0 =>
        LET g == limiter.grants
            inside == {c \in DOMAIN callers : callers[c] = "sleeping"}
        IN  /\ \A i \in 2..Len(g) : g[i] - g[i - 1] >= limiter.interval
            /\ Len(g) >= 1 => limiter.now - limiter.start >= (Len(g) - 1) * limiter.interval
            /\ Cardinality(inside) <= 1
            /\ inside # {} => limiter.locked
            /\ Len(g) >= 1 => limiter.last_request_time = g[Len(g)]

C8_Witness ==
    /\ limiter.interval = 2
    /\ Len(limiter.grants) = 3
    /\ limiter.grants[3] - limiter.grants[1] = 4

(***************************************************************************)
(* Claims about the extraction run                                         *)
(***************************************************************************)
Whitelist == {26, 46, 47, 51, 52, 53, 64, 65, 66, 67}

\* the invalid records that carry the names of municipality m
InvalidRecordsOf(m) ==
    {i \in DOMAIN dataframes.invalid :
        /\ dataframes.invalid[i].CA = munid2names(m).community_name
        /\ dataframes.invalid[i].Provincia = munid2names(m).province
        /\ dataframes.invalid[i].Municipio = munid2names(m).municipe}

\* the rows of a table that carry the names of municipality m and network n
RowsOf(table, m, n) ==
    SelectSeq(table, LAMBDA r : /\ r.Red = red_name(n)
                                /\ r.Municipio = munid2names(m).municipe
                                /\ r.Provincia = munid2names(m).province
                                /\ r.CA = munid2names(m).community_name)

\* the whitelisted rows of the page network n of municipality m returned,
\* under the names of m and n
ExpectedRows(m, n) ==
    LET c == red_task[m][n].content.codes
    IN  SelectSeq([i \in 1..Len(c) |->
                      [CA |-> munid2names(m).community_name,
                       Provincia |-> munid2names(m).province,
                       Municipio |-> munid2names(m).municipe,
                       Red |-> red_name(n), Codigo |-> c[i], Valor |-> i]],
                  LAMBDA r : r.Codigo \in Whitelist)

\* C5: in every state of an extraction run a municipality has a record in
\* the invalid table iff its network discovery returned zero networks; it
\* then has exactly one, the table holds no other record, and no measurement
\* row carries the names of a municipality that has an invalid record.
C5_InvalidIffNoReds ==
    /\ \A m \in DOMAIN mun_task :
         /\ (InvalidRecordsOf(m) # {}) <=> (mun_task[m].reds = 0)
         /\ Cardinality(InvalidRecordsOf(m)) <= 1
         /\ InvalidRecordsOf(m) # {} =>
               \A i \in DOMAIN dataframes.red :
                   dataframes.red[i].Municipio # munid2names(m).municipe
    /\ mun_task # <<>> =>
         Len(dataframes.invalid) = Cardinality({m \in DOMAIN mun_task : mun_task[m].reds = 0})

C5_Witness ==
    /\ mun_task[0].reds = 0
    /\ mun_task[1].reds = 1
    /\ Len(dataframes.invalid) = 1
    /\ Len(dataframes.red) = 1

\* C6: in every state every row of the measurement table, in memory and in
\* its checkpoint, has a code of the 10-code whitelist, and the whitelist
\* filter applied to the table changes nothing.
C6_Whitelisted ==
    mun_task # <<>> =>
        /\ \A i \in DOMAIN dataframes.red : dataframes.red[i].Codigo \in Whitelist
        /\ \A i \in DOMAIN disk.red.rows : disk.red.rows[i].Codigo \in Whitelist
        /\ isin(dataframes.red) = dataframes.red
        /\ isin(isin(dataframes.red)) = isin(dataframes.red)

C6_Witness ==
    /\ red_task[0][1].pc = "done"
    /\ red_task[0][1].content.codes = <<27, 26>>
    /\ red_task[0][2].pc = "done"
    /\ red_task[0][2].content.codes = <<27>>
    /\ Len(dataframes.red) = 1
    /\ disk.red.rows = dataframes.red

\* C7: for every network of every municipality, under every interleaving,
\* the rows of the measurement table under that municipality's and network's
\* names are exactly the whitelisted rows of the page that network's fetch
\* returned (k of its k+j rows), in the page's order, once the network is
\* done, and none before; the table holds no other row.
C7_RowsPerRed ==
    mun_task # <<>> =>
        /\ \A m \in DOMAIN red_task : \A n \in DOMAIN red_task[m] :
             RowsOf(dataframes.red, m, n) =
                 IF red_task[m][n].pc = "done" THEN ExpectedRows(m, n) ELSE <<>>
        /\ \A i \in DOMAIN dataframes.red :
             \E m \in DOMAIN red_task : \E n \in DOMAIN red_task[m] :
                 /\ n <= mun_task[m].reds
                 /\ RowsOf(<<dataframes.red[i]>>, m, n) # <<>>

C7_Witness ==
    /\ red_task[1][1].pc = "done"
    /\ red_task[1][2].pc = "done"
    /\ red_task[1][1].content.codes = <<26, 27>>
    /\ red_task[1][2].content.codes = <<27, 26>>
    /\ Len(dataframes.red) = 2
    /\ dataframes.red[1].Red = red_name(2)
    /\ dataframes.red[2].Red = red_name(1)

\* C9: with a progress callback, it is called once per completed
\* municipality (with or without networks) and the values it receives are
\* 1, 2, ..., k in this order; k never exceeds the number of payloads and
\* equals it when scrape() returns.
C9_Progress ==
    (mun_task # <<>> /\ progress.callback) =>
        /\ progress.calls = [i \in 1..Len(progress.calls) |-> i]
        /\ Len(progress.calls) = Cardinality({m \in DOMAIN mun_task : mun_task[m].pc = "done"})
        /\ progress.processed_municipalities = Len(progress.calls)
        /\ Len(progress.calls) <= NumMun
        /\ scrape.pc = "returned" => Len(progress.calls) = NumMun

C9_Witness ==
    /\ progress.callback
    /\ scrape.pc = "returned"
    /\ progress.calls = <<1, 2>>
    /\ mun_task[0].reds = 1
    /\ mun_task[1].reds = 0

\* the records of a completed municipality m are in the snapshots on disk
OnDisk(m) ==
    /\ \A d \in DOMAIN disk : disk[d].written
    /\ mun_task[m].reds = 0 =>
          \E i \in DOMAIN disk.invalid.rows :
              disk.invalid.rows[i].Municipio = munid2names(m).municipe
    /\ \A n \in DOMAIN red_task[m] :
          n <= mun_task[m].reds => RowsOf(disk.red.rows, m, n) = ExpectedRows(m, n)

\* C10 (as claimed): whenever a municipality has finished processing, with
\* networks or recorded as invalid, every accumulator's snapshot on disk has
\* been rewritten and holds that municipality's records.
C10_CheckpointEveryMun ==
    \A m \in DOMAIN mun_task : mun_task[m].pc = "done" => OnDisk(m)

\* C10 (amended): whenever a municipality that had at least one network has
\* finished processing, its own three _save_results have rewritten every
\* accumulator's snapshot before it was counted, and the snapshots hold its
\* records; a municipality recorded as invalid is counted with no checkpoint
\* written on its behalf.
C10_CheckpointMunWithReds ==
    \A m \in DOMAIN mun_task :
        mun_task[m].pc = "done" =>
            IF mun_task[m].reds > 0
            THEN mun_task[m].saved = 3 /\ OnDisk(m)
            ELSE mun_task[m].saved = 0

C10_Witness ==
    /\ mun_task[0].pc = "done"
    /\ mun_task[0].reds = 1
    /\ Len(RowsOf(disk.red.rows, 0, 1)) = 1
    /\ mun_task[1].pc = "done"
    /\ mun_task[1].reds = 0
    /\ disk.invalid.written
    /\ disk.invalid.rows = <<>>
    /\ Len(dataframes.invalid) = 1

\* the positions in a table of the rows of network n of municipality m
PositionsOf(table, m, n) ==
    {i \in DOMAIN table : /\ table[i].Red = red_name(n)
                          /\ table[i].Municipio = munid2names(m).municipe}

C16_SiblingsTornDown ==
    [][\A m \in Muns :
          (/\ mun_task[m].pc = "failed"
           /\ mun_task[m].reds > 0
           /\ mun_task[m].error # "ValueError") =>
              /\ \A n \in Reds : red_task'[m][n].pc \in {red_task[m][n].pc, "cancelled"}
              /\ \A n \in Reds : PositionsOf(dataframes'.red, m, n)
                                     = PositionsOf(dataframes.red, m, n)]_vars

\* C17 (as claimed): no network task ends in a fault of the measurement
\* extractor: a page without the section or its table gives an empty table,
\* the network is done with no row appended, and the run goes on.
C17_AnomalyIsEmpty ==
    mun_task # <<>> =>
        /\ \A m \in Muns : \A n \in Reds : red_task[m][n].error # "ValueError"
        /\ scrape.error # "ValueError"

(***************************************************************************)
(* Claims about the retries of one fetch                                   *)
(***************************************************************************)
\* C18 (as claimed): in both phases, when a fetch has used up its attempts
\* and raises, the log holds the payload of the request that failed.
C18_PayloadLogged ==
    (fetch.pc = "raised" /\ fetch.error = "RetryError") =>
        \E i \in DOMAIN fetch.log : fetch.log[i] = "Payload"

\* C19 (as claimed): every delay between two attempts of a fetch lies
\* between 4 s and the phase's maximum (10 s in discovery, 60 s in
\* extraction), and each delay is greater than the one before it unless it
\* is the maximum.
C19_DelaysIncrease ==
    \A i \in DOMAIN fetch.sleeps :
        /\ fetch.sleeps[i] >= 4
        /\ fetch.sleeps[i] <= (IF fetch.phase = "payload" THEN 10 ELSE 60)
        /\ i > 1 =>
              \/ fetch.sleeps[i] > fetch.sleeps[i - 1]
              \/ fetch.sleeps[i] = (IF fetch.phase = "payload" THEN 10 ELSE 60)

(***************************************************************************)
(* Claims about the discovery run                                          *)
(***************************************************************************)
\* the options of a page that carry a value
Populated(options) == SelectSeq(options, LAMBDA o : o.value # "")

\* the municipalities the run has processed: <<i, j, k>> is the k-th option
\* with a value on the page of the j-th option with a value on the page of
\* the i-th requested community, once that province's records are in
Emitted ==
    {t \in (DOMAIN discovery.comm_task) \X Provs \X (1..MaxOptions) :
        /\ discovery.prov_task[t[1]][t[2]].pc = "done"
        /\ t[2] <= Len(Populated(discovery.comm_task[t[1]].options))
        /\ t[3] <= Len(Populated(discovery.prov_task[t[1]][t[2]].options))}

\* the record of municipality t
RecordOf(t) ==
    LET c == discovery.communities[t[1]]
        p == Populated(discovery.comm_task[t[1]].options)[t[2]]
        m == Populated(discovery.prov_task[t[1]][t[2]].options)[t[3]]
    IN  [community_name |-> c.name, province |-> p.text, municipe |-> m.text,
         payload |-> [codComunidad |-> c.id, codProvincia |-> p.value,
                      codMunicipio |-> m.value, method |-> "Buscar"]]

\* every province the portal listed has been processed
AllProvincesDone ==
    \A i \in DOMAIN discovery.comm_task :
        \A j \in 1..Len(Populated(discovery.comm_task[i].options)) :
            discovery.prov_task[i][j].pc = "done"

\* C11 (as claimed): when the discovery run has returned, the payload table
\* holds exactly one record for every (community, province, municipality)
\* triple of identifiers the listings give, and no other record.
C11_OneRecordPerTriple ==
    discovery.scrape.pc = "returned" =>
        /\ \A t \in Emitted :
             Cardinality({x \in DOMAIN discovery.results_df :
                             discovery.results_df[x].payload = RecordOf(t).payload}) = 1
        /\ \A x \in DOMAIN discovery.results_df :
             \E t \in Emitted : RecordOf(t) = discovery.results_df[x]

\* C11 (amended): in every state of a discovery run the payload table holds
\* exactly one record per processed municipality option: for every record
\* value, as many records as options that give it; no record comes from an
\* option without a value; and when the run has returned every province the
\* portal listed has been processed, so no municipality is missing.
C11_OneRecordPerOption ==
    discovery.scrape.pc # "none" =>
        /\ \A t \in Emitted :
             Cardinality({x \in DOMAIN discovery.results_df :
                             discovery.results_df[x] = RecordOf(t)})
                 = Cardinality({u \in Emitted : RecordOf(u) = RecordOf(t)})
        /\ Len(discovery.results_df) = Cardinality(Emitted)
        /\ \A x \in DOMAIN discovery.results_df :
             /\ discovery.results_df[x].payload.codProvincia # ""
             /\ discovery.results_df[x].payload.codMunicipio # ""
        /\ discovery.scrape.pc = "returned" => AllProvincesDone

C11_Witness ==
    /\ discovery.scrape.pc = "returned"
    /\ Len(discovery.communities) = 1
    /\ Len(discovery.results_df) = 2
    /\ discovery.results_df[1].payload.codProvincia = "02"
    /\ discovery.results_df[2].payload.codProvincia = "01"
    /\ Len(discovery.comm_task[1].options) = 3

\* the requested codes and the values of every served page are free of
\* repetitions
NoRepeats ==
    LET distinct(q) == \A a, b \in DOMAIN q : q[a] = q[b] => a = b
        values(options) == [k \in DOMAIN options |-> options[k].value]
    IN  /\ distinct([i \in DOMAIN discovery.communities |-> discovery.communities[i].id])
        /\ \A i \in DOMAIN discovery.comm_task :
             /\ distinct(values(discovery.comm_task[i].options))
             /\ \A j \in Provs : distinct(values(discovery.prov_task[i][j].options))

\* C12 (as claimed): whatever codes are requested and whatever the portal
\* answers, no two records of the payload table have the same municipality
\* id.
C12_UniqueMunicipalityId ==
    discovery.scrape.pc # "none" =>
        \A x, y \in DOMAIN discovery.results_df :
            discovery.results_df[x].payload.codMunicipio
                = discovery.results_df[y].payload.codMunicipio => x = y

\* C12 (amended): when no community code is requested twice and no page the
\* portal served lists a value twice, no two records of the payload table
\* have the same (community, province, municipality) identifiers; the
\* municipality id alone can repeat from one province to another.
C12_UniquePayload ==
    (discovery.scrape.pc # "none" /\ NoRepeats) =>
        \A x, y \in DOMAIN discovery.results_df :
            discovery.results_df[x].payload = discovery.results_df[y].payload => x = y

C12_Witness ==
    /\ discovery.scrape.pc = "returned"
    /\ NoRepeats
    /\ Len(discovery.communities) = 2
    /\ Len(discovery.results_df) = 2
    /\ discovery.results_df[1].payload.codMunicipio = "01"
    /\ discovery.results_df[2].payload.codMunicipio = "01"
    /\ discovery.results_df[1].payload.codComunidad = 2

\* C13 (as claimed): every field of every record of the payload table is
\* non-empty: the three identifiers and the three names.
C13_AllFieldsNonEmpty ==
    discovery.scrape.pc # "none" =>
        \A x \in DOMAIN discovery.results_df :
            LET r == discovery.results_df[x]
            IN  /\ r.payload.codComunidad \in DOMAIN CA_NAMES
                /\ r.payload.codProvincia # ""
                /\ r.payload.codMunicipio # ""
                /\ r.community_name # ""
                /\ r.province # ""
                /\ r.municipe # ""

\* C13 (amended): every record of the payload table has non-empty community,
\* province and municipality identifiers and a non-empty community name; its
\* province and municipality names are the texts of the options they come
\* from, and such a name is empty only when the portal served an option with
\* that value and no text.
C13_IdsNonEmpty ==
    discovery.scrape.pc # "none" =>
        \A x \in DOMAIN discovery.results_df :
            LET r == discovery.results_df[x]
                served(value, text) ==
                    \E i \in DOMAIN discovery.comm_task :
                        \/ \E k \in DOMAIN discovery.comm_task[i].options :
                             discovery.comm_task[i].options[k] = [value |-> value, text |-> text]
                        \/ \E j \in Provs : \E k \in DOMAIN discovery.prov_task[i][j].options :
                             discovery.prov_task[i][j].options[k]
                                 = [value |-> value, text |-> text]
            IN  /\ r.payload.codComunidad \in DOMAIN CA_NAMES
                /\ r.payload.codProvincia # ""
                /\ r.payload.codMunicipio # ""
                /\ r.community_name # ""
                /\ served(r.payload.codProvincia, r.province)
                /\ served(r.payload.codMunicipio, r.municipe)

C13_Witness ==
    /\ discovery.scrape.pc = "returned"
    /\ Len(discovery.results_df) = 2
    /\ discovery.results_df[1].municipe = "Uno"
    /\ discovery.results_df[2].municipe = ""
    /\ discovery.results_df[2].payload.codMunicipio = "02"

(***************************************************************************)
(* Claims about faults in a run of either phase                            *)
(***************************************************************************)
\* the scrape() of the run: the extraction's, or else the discovery's
RunScrape == IF scrape.pc # "none" THEN scrape ELSE discovery.scrape

\* the exceptions the tasks of the run have raised
RunFaults ==
    IF scrape.pc # "none"
    THEN ({mun_task[m].error : m \in Muns}
          \cup {red_task[m][n].error : m \in Muns, n \in Reds}) \ {"none"}
    ELSE ({discovery.comm_task[i].error : i \in DOMAIN discovery.comm_task}
          \cup {discovery.prov_task[i][j].error :
                   i \in DOMAIN discovery.prov_task, j \in Provs}) \ {"none"}

\* an exception is on its way to scrape(): a task scrape() awaits has failed,
\* or a task awaited by the gather of a waiting parent
FaultPending ==
    IF scrape.pc # "none"
    THEN \E m \in Muns :
            \/ mun_task[m].pc = "failed"
            \/ mun_task[m].pc = "gather" /\ \E n \in Reds : red_task[m][n].pc = "failed"
    ELSE \E i \in DOMAIN discovery.comm_task :
            \/ discovery.comm_task[i].pc = "failed"
            \/ /\ discovery.comm_task[i].pc = "gather"
               /\ \E j \in Provs : discovery.prov_task[i][j].pc = "failed"

\* C14: in either phase, once a fetch has ended in a fatal fault scrape()
\* does not return: the fault is on its way up while scrape() runs, and what
\* scrape() raises is the fault of one of its tasks, unchanged; a scrape()
\* that has returned had no task fail.
C14_FaultAborts ==
    /\ RunScrape.pc = "returned" => RunFaults = {} /\ RunScrape.error = "none"
    /\ (RunScrape.pc = "running" /\ RunFaults # {}) => FaultPending
    /\ RunScrape.pc \in {"raised", "closed"} => RunScrape.error \in RunFaults

C14_Witness ==
    /\ discovery.scrape.pc = "raised"
    /\ discovery.scrape.error = "RetryError"
    /\ \E i \in DOMAIN discovery.prov_task :
          /\ discovery.prov_task[i][2].error = "RetryError"
          /\ discovery.prov_task[i][1].pc = "done"
          /\ discovery.comm_task[i].pc = "failed"
    /\ Len(discovery.results_df) = 1

IsPrefix(a, b) == Len(a) <= Len(b) /\ a = SubSeq(b, 1, Len(a))

\* the rows a step has added at the end of a table
Added(old, new) == SubSeq(new, Len(old) + 1, Len(new))

\* C21: every step of a run of either phase leaves each accumulator table
\* with its earlier rows in place, unchanged and in order, and what it adds
\* at the end are the rows of the one task that appends in that step: the
\* rows of a network that becomes done, the one record of a municipality
\* found without networks, the records of a province that becomes done.
C21_AppendOnly ==
    [][/\ scrape.pc # "none" =>
            /\ \A name \in DOMAIN dataframes : IsPrefix(dataframes[name], dataframes'[name])
            /\ dataframes'.payload = <<>>
            /\ dataframes'.red # dataframes.red =>
                 \E m \in Muns, n \in Reds :
                     /\ red_task[m][n].pc = "fetch"
                     /\ red_task'[m][n].pc = "done"
                     /\ \A k \in DOMAIN Added(dataframes.red, dataframes'.red) :
                          /\ Added(dataframes.red, dataframes'.red)[k].Red = red_name(n)
                          /\ Added(dataframes.red, dataframes'.red)[k].Municipio
                                 = munid2names(m).municipe
            /\ dataframes'.invalid # dataframes.invalid =>
                 \E m \in Muns :
                     /\ mun_task[m].pc = "fetch"
                     /\ mun_task'[m].reds = 0
                     /\ Added(dataframes.invalid, dataframes'.invalid)
                            = <<[CA |-> munid2names(m).community_name,
                                 Provincia |-> munid2names(m).province,
                                 Municipio |-> munid2names(m).municipe]>>
       /\ discovery.scrape.pc # "none" =>
            /\ IsPrefix(discovery.results_df, discovery'.results_df)
            /\ discovery'.results_df # discovery.results_df =>
                 \E i \in DOMAIN discovery.prov_task, j \in Provs :
                     /\ discovery.prov_task[i][j].pc = "gather"
                     /\ discovery'.prov_task[i][j].pc = "done"
                     /\ Len(Added(discovery.results_df, discovery'.results_df))
                            = Len(Populated(discovery.prov_task[i][j].options))
                     /\ \A k \in DOMAIN Added(discovery.results_df, discovery'.results_df) :
                          Added(discovery.results_df, discovery'.results_df)[k].payload
                              = [codComunidad |-> discovery.communities[i].id,
                                 codProvincia |->
                                     Populated(discovery.comm_task[i].options)[j].value,
                                 codMunicipio |->
                                     Populated(discovery.prov_task[i][j].options)[k].value,
                                 method |-> "Buscar"]]_vars

C21_Witness ==
    /\ scrape.pc = "returned"
    /\ Len(dataframes.red) = 2
    /\ Len(dataframes.invalid) = 1
    /\ dataframes.red[1].Municipio = munid2names(1).municipe
    /\ dataframes.red[1].Red = red_name(2)
    /\ dataframes.red[2].Municipio = munid2names(1).municipe
    /\ dataframes.red[2].Red = red_name(1)
    /\ dataframes.invalid[1].Municipio = munid2names(0).municipe

\* C22: a step that writes a checkpoint file leaves in it the whole table
\* as it is at that step; so every file written in the run holds a prefix of
\* its table as it is in memory, a file not written holds nothing of the
\* run, and from one step to the next a file's content only grows.
C22_SnapshotsGrow ==
    [][/\ scrape.pc # "none" =>
            \A name \in DOMAIN disk :
                /\ disk'[name] # disk[name] =>
                      disk'[name] = [written |-> TRUE, rows |-> dataframes'[name]]
                /\ IsPrefix(disk[name].rows, disk'[name].rows)
                /\ IsPrefix(disk'[name].rows, dataframes'[name])
                /\ disk[name].written => disk'[name].written
                /\ ~disk'[name].written => disk'[name].rows = <<>>
       /\ discovery.scrape.pc # "none" =>
            /\ discovery'.disk # discovery.disk =>
                  discovery'.disk = [written |-> TRUE, rows |-> discovery'.results_df]
            /\ IsPrefix(discovery.disk.rows, discovery'.disk.rows)
            /\ IsPrefix(discovery'.disk.rows, discovery'.results_df)
            /\ discovery.disk.written => discovery'.disk.written
            /\ ~discovery'.disk.written => discovery'.disk.rows = <<>>]_vars

C22_Witness ==
    /\ discovery.scrape.pc = "running"
    /\ discovery.disk.written
    /\ Len(discovery.disk.rows) = 1
    /\ Len(discovery.results_df) = 2
    /\ discovery.comm_task[1].pc = "gather"
    /\ discovery.comm_task[2].pc = "done"

\* C23: when a discovery run over a non-empty list of communities has
\* returned, the payload checkpoint has been written and holds the returned
\* table, so an extraction built without a table (it loads the checkpoint)
\* gets the same payload list and the same names as one built with the
\* returned table.
C23_RoundTrip ==
    (discovery.scrape.pc = "returned" /\ discovery.communities # <<>>) =>
        /\ discovery.disk.written
        /\ discovery.disk.rows = discovery.results_df
        /\ initialize_mun_payloads(NoneGiven, discovery.disk)
               = initialize_mun_payloads(GivenTable(discovery.results_df), discovery.disk)
        /\ Len(initialize_mun_payloads(NoneGiven, discovery.disk).mun_payloads)
               = Len(discovery.results_df)

C23_Witness ==
    /\ discovery.scrape.pc = "returned"
    /\ Len(discovery.communities) = 2
    /\ discovery.communities[1].id # discovery.communities[2].id
    /\ Len(discovery.results_df) = 2
    /\ discovery.results_df[1].payload.codComunidad = discovery.communities[2].id
    /\ discovery.results_df[2].payload.codComunidad = discovery.communities[1].id
    /\ initialize_mun_payloads(NoneGiven, discovery.disk).mun_payloads[2].codComunidad
           = discovery.communities[1].id

\* C25: no step of an extraction run changes the payload table it was given
\* or the list of payloads it took from it, none writes the file of the
\* discovery checkpoint, and the files it writes are its own three, none of
\* them at the path of the discovery checkpoint.
C25_InputReadOnly ==
    [][/\ discovery'.results_df = discovery.results_df
       /\ scrape'.mun_payloads = scrape.mun_payloads
       /\ discovery'.disk = discovery.disk
       /\ DOMAIN disk' = {"payload", "invalid", "red"}
       /\ \A name \in DOMAIN disk' : save_paths[name] # "data/payloads.pkl"]_vars

C25_Witness ==
    /\ scrape.pc = "returned"
    /\ \A name \in DOMAIN disk : disk[name].written
    /\ Len(disk.red.rows) = 1
    /\ disk.payload.rows = <<>>
    /\ Len(discovery.disk.rows) = NumMun
    /\ discovery.disk.rows = discovery.results_df
    /\ scrape.mun_payloads[1] = discovery.results_df[1].payload
    /\ scrape.mun_payloads[1].codMunicipio = 0

\* C24 (as claimed): at whatever point the process stops, every checkpoint
\* file that exists holds a finished snapshot of its table, the one before
\* the write under way or the new one: never an empty or unfinished stream.
C24_CrashSafe ==
    (mun_task = <<>> /\ scrape.pc = "stopped") =>
        \A name \in DOMAIN disk :
            disk[name].written =>
                /\ ~disk[name].open
                /\ IsPrefix(disk[name].rows, dataframes[name])


(***************************************************************************)
(* Claims about the guards                                                 *)
(***************************************************************************)
\* the tasks that have neither finished nor raised
Unfinished == {c \in Callers : fetches.calls[c].pc \notin {"done", "raised"}}

\* task c can go no further until another task releases a guard: it is
\* queued on the rate limiter's lock and its future is not set, or the
\* accumulator guard it is about to enter is held
WaitsForGuard(c) ==
    \/ callers[c] = "waiting" /\ c \notin limiter.woken
    \/ /\ fetches.calls[c].pc = "returned"
       /\ \A name \in AppendTargets(fetches.phase) : scrape.df_locks[name].locked
    \/ /\ fetches.calls[c].pc = "save"
       /\ scrape.df_locks[SaveTargets(fetches.phase)[fetches.calls[c].saved + 1]].locked

\* C26: in both phases, whenever the tasks are suspended no accumulator guard
\* is held; the rate limiter's guard is held only by the one task sleeping
\* inside acquire(), which therefore holds no second guard; and whenever a
\* task is unfinished, some unfinished task is not waiting for a guard.
C26_GuardDiscipline ==
    /\ \A name \in DOMAIN scrape.df_locks : ~scrape.df_locks[name].locked
    /\ limiter.locked =>
           \E c \in Callers : callers[c] = "sleeping" /\ fetches.calls[c].pc = "acquire"
    /\ Cardinality({c \in Callers : callers[c] = "sleeping"}) <= 1
    /\ Unfinished # {} => \E c \in Unfinished : ~WaitsForGuard(c)

C26_Witness ==
    /\ fetches.phase = "red"
    /\ \E c, d \in Callers :
         /\ fetches.calls[c].pc = "save"
         /\ fetches.calls[c].saved = 2
         /\ dataframes.red = <<c>>
         /\ disk.invalid.written
         /\ callers[d] = "sleeping"
         /\ limiter.locked

(***************************************************************************)
(* Claims about termination                                                *)
(***************************************************************************)
\* the acquire() task c was inside has returned: the POST that follows it
\* has been issued and has come to its outcome
Granted(c) == fetches.calls[c].pc \in {"returned", "raised", "sleep"}

\* C27 (as claimed): under fair scheduling every acquire() is eventually
\* granted, no fetch makes more than RETRIES attempts, and scrape()
\* eventually returns or raises.
C27_Termination ==
    /\ \A c \in Callers : (fetches.calls[c].pc = "acquire") ~> Granted(c)
    /\ [](\A c \in Callers : fetches.calls[c].attempt_number <= RETRIES)
    /\ <>(scrape.ended # "none")

\* C27 (amended): under fair scheduling every acquire() is eventually
\* granted or its task is cancelled, which happens only once scrape() has
\* ended; no fetch makes more than RETRIES attempts and every fetch ends, by
\* a return, an exception or that cancellation; and scrape() eventually
\* returns or raises.
C27_TerminationOrCancelled ==
    /\ \A c \in Callers :
         (fetches.calls[c].pc = "acquire")
             ~> (Granted(c) \/ fetches.calls[c].pc = "cancelled")
    /\ [](\A c \in Callers :
            fetches.calls[c].pc = "cancelled" => scrape.pc = "closed")
    /\ [](\A c \in Callers : fetches.calls[c].attempt_number <= RETRIES)
    /\ \A c \in Callers : <>(fetches.calls[c].pc \in {"returned", "raised", "cancelled"})
    /\ <>(scrape.ended # "none")

C27_Witness ==
    /\ scrape.ended = "raised"
    /\ \E c, d \in Callers :
         /\ fetches.calls[c].pc = "raised"
         /\ fetches.calls[c].attempt_number = RETRIES
         /\ fetches.calls[d].pc = "acquire"
         /\ callers[d] = "sleeping"

====
